---- MODULE Spec2Model ----
(***************************************************************************)
(* godiff: the diff core (Myers O(ND) engine, line classifier, one-sided   *)
(* compressor, change expander, boundary shifter, hunk grouper).           *)
(*                                                                         *)
(* Go slices are 0-based; TLA+ sequences are 1-based.  Every index kept in *)
(* a variable or returned by an operator is the Go (0-based) index, and    *)
(* the element at Go index i of a sequence s is s[i+1].                    *)
(***************************************************************************)
EXTENDS Integers, Sequences, FiniteSets, TLC

\* ------------------------------------------------------------------------
\* Bounds of the model
\* ------------------------------------------------------------------------
\* longest id sequence handed to do_diff in SpecDiff
MaxIdLen == 4
\* largest positive id in the sequences of SpecDiff
MaxId == 1
\* most lines of a file when every comparison flag and blank lines are tried
MaxLen == 3
\* most lines of a file in the exact configuration, with two distinct lines
MaxLongLen == 5
\* most lines of a file, and of the two files together, when the files are
\* made of three distinct lines and only the -B flag is tried
MaxMidLen == 4
MaxMidTotal == 6
\* largest value of the -c option (flag_context_lines)
MaxCtx == 1
MaxEqLen == 2
MaxCmpLen == 3
MaxCmpLongLen == 4
MaxBufLen == 5
\* Scan at up to this size in file for '\0' in test for binary file: 65536 in
\* the source, scaled down so that files longer than it are enumerated.  The
\* code only compares indexes and lengths with it.
BINARY_CHECK_SIZE == 2
\* -g, the number of worker goroutines: more than one
flag_max_goroutines == 2
MaxJobs == 2
MaxHunks == 2
MaxShiftLen == 5
MaxScore == 1
MaxRuneLen == 4
MaxSmsLen == 5
MaxZLen == 4
MaxScanLen == 4

\* ------------------------------------------------------------------------
\* Small helpers
\* ------------------------------------------------------------------------
MaxInt(a, b) == IF a < b THEN b ELSE a

MinInt(a, b) == IF a < b THEN a ELSE b

\* make([]bool, n): n entries, all false
MakeBools(n) == [i \in 1..n |-> FALSE]

\* make([]bool, n) with every entry then set to true
AllTrue(n) == [i \in 1..n |-> TRUE]

\* Go slice s[lo:hi] (0-based, half open)
Slice(s, lo, hi) == SubSeq(s, lo + 1, hi)

\* all sequences over S of length at most n
SeqsUpTo(S, n) == UNION {[1..k -> S] : k \in 0..n}

\* ------------------------------------------------------------------------
\* Myers engine: algorithm_sms, find_one_sms, algorithm_lcs, do_diff
\* ------------------------------------------------------------------------
\* the forward snake of algorithm_sms: walk matches down the diagonal k
RECURSIVE snake_down(_, _, _, _)
snake_down(data1, data2, x, k) ==
  IF x < Len(data1) /\ x - k < Len(data2) /\ data1[x + 1] = data2[x - k + 1]
  THEN snake_down(data1, data2, x + 1, k)
  ELSE x

\* the reverse snake of algorithm_sms: walk matches up the diagonal k
RECURSIVE snake_up(_, _, _, _)
snake_up(data1, data2, x, k) ==
  IF x > 0 /\ x > k /\ data1[x] = data2[x - k]
  THEN snake_up(data1, data2, x - 1, k)
  ELSE x

\* sms_forward with the choice between the two neighbouring diagonals turned
\* round: the step is taken from the diagonal that has got less far
RECURSIVE sms_forward_nearest(_, _, _, _, _, _)
sms_forward_nearest(data1, data2, d, k, v, z) ==
  LET end1 == Len(data1)
      end2 == Len(data2)
      max == end1 + end2 + 1
      up_k == end1 - end2
      odd == (up_k % 2) # 0
      down_off == max
      up_off == max - up_k + max + max + 2
      xr == v[down_off + k + 1]
      take == k > -d /\ (k = d \/ z < xr)
      x0 == IF take THEN z + 1 ELSE xr
      z1 == xr
      u == x0
      x == snake_down(data1, data2, x0, k)
  IN IF k > d THEN [found |-> FALSE, v |-> v, z |-> z]
     ELSE IF odd /\ (up_k - d < k) /\ (k < up_k + d) /\ v[up_off + k] <= x
     THEN [found |-> TRUE, ret |-> <<u, u - k, x, x - k>>, v |-> v, z |-> z1]
     ELSE sms_forward_nearest(data1, data2, d, k + 2, [v EXCEPT ![down_off + k] = x], z1)

\* forward sweep of one value of d, from diagonal k on.  v is the shared
\* diagonal vector (0-based function), z the scratch variable of the loop.
RECURSIVE sms_forward(_, _, _, _, _, _)
sms_forward(data1, data2, d, k, v, z) ==
  LET end1 == Len(data1)
      end2 == Len(data2)
      max == end1 + end2 + 1
      up_k == end1 - end2
      odd == (up_k % 2) # 0
      down_off == max
      up_off == max - up_k + max + max + 2
      xr == v[down_off + k + 1]
      take == k > -d /\ (k = d \/ z >= xr)
      x0 == IF take THEN z + 1 ELSE xr
      z1 == xr
      u == x0
      x == snake_down(data1, data2, x0, k)
  IN IF k > d THEN [found |-> FALSE, v |-> v, z |-> z]
     ELSE IF odd /\ (up_k - d < k) /\ (k < up_k + d) /\ v[up_off + k] <= x
     THEN [found |-> TRUE, ret |-> <<u, u - k, x, x - k>>, v |-> v, z |-> z1]
     ELSE sms_forward(data1, data2, d, k + 2, [v EXCEPT ![down_off + k] = x], z1)

\* reverse sweep of one value of d, from diagonal k on
RECURSIVE sms_reverse(_, _, _, _, _, _)
sms_reverse(data1, data2, d, k, v, z) ==
  LET end1 == Len(data1)
      end2 == Len(data2)
      max == end1 + end2 + 1
      up_k == end1 - end2
      odd == (up_k % 2) # 0
      down_off == max
      up_off == max - up_k + max + max + 2
      inner == k < up_k + d
      z1 == IF inner THEN v[up_off + k + 1] ELSE z
      x0 == IF inner /\ (k = up_k - d \/ z1 <= z) THEN z1 - 1 ELSE z
      u == x0
      x == snake_up(data1, data2, x0, k)
  IN IF k > up_k + d THEN [found |-> FALSE, v |-> v, z |-> z]
     ELSE IF (~odd) /\ (-d <= k) /\ (k <= d) /\ x <= v[down_off + k]
     THEN [found |-> TRUE, ret |-> <<x, x - k, u, u - k>>, v |-> v, z |-> z1]
     ELSE sms_reverse(data1, data2, d, k + 2, [v EXCEPT ![up_off + k] = x], z1)

\* the loop over d of algorithm_sms
RECURSIVE sms_loop(_, _, _, _, _)
sms_loop(data1, data2, d, v, z) ==
  LET end1 == Len(data1)
      end2 == Len(data2)
      max == end1 + end2 + 1
      up_k == end1 - end2
      up_off == max - up_k + max + max + 2
      f == sms_forward(data1, data2, d, -d, v, z)
      r == sms_reverse(data1, data2, d, up_k - d, f.v, f.v[up_off + up_k - d - 1])
  IN IF f.found THEN f
     ELSE IF r.found THEN r
     ELSE sms_loop(data1, data2, d + 1, r.v, r.z)

\* find the middle snake; returns [ret |-> <<x0, y0, x1, y1>>, v |-> v']
algorithm_sms(data1, data2, v) ==
  LET end1 == Len(data1)
      end2 == Len(data2)
      max == end1 + end2 + 1
      up_k == end1 - end2
      down_off == max
      up_off == max - up_k + max + max + 2
      va == [v EXCEPT ![down_off + 1] = 0]
      vb == [va EXCEPT ![down_off] = 0]
      vc == [vb EXCEPT ![up_off + up_k - 1] = end1]
      vd == [vc EXCEPT ![up_off + up_k] = end1]
      res == sms_loop(data1, data2, 1, vd, 0)
  IN [ret |-> res.ret, v |-> res.v]

\* find_one_sms that returns 0, 0 when the item is not in the list
find_one_sms_origin(value, list) ==
  IF \E i \in 1..Len(list) : list[i] = value
  THEN <<0, (CHOOSE i \in 1..Len(list) :
               list[i] = value /\ \A j \in 1..(i - 1) : list[j] # value) - 1>>
  ELSE <<0, 0>>

\* special case of algorithm_sms with only one item: <<0, i>> or <<1, 0>>
find_one_sms(value, list) ==
  IF \E i \in 1..Len(list) : list[i] = value
  THEN <<0, (CHOOSE i \in 1..Len(list) :
               list[i] = value /\ \A j \in 1..(i - 1) : list[j] # value) - 1>>
  ELSE <<1, 0>>

\* number of matching leading items, the first loop of algorithm_lcs
RECURSIVE lcs_head(_, _, _)
lcs_head(data1, data2, s) ==
  IF s < Len(data1) /\ s < Len(data2) /\ data1[s + 1] = data2[s + 1]
  THEN lcs_head(data1, data2, s + 1)
  ELSE s

\* number of matching trailing items after the first s are taken off
RECURSIVE lcs_tail(_, _, _, _)
lcs_tail(data1, data2, s, t) ==
  IF s < Len(data1) - t /\ s < Len(data2) - t
     /\ data1[Len(data1) - t] = data2[Len(data2) - t]
  THEN lcs_tail(data1, data2, s, t + 1)
  ELSE t

\* algorithm_lcs on the slices data1, data2 with the shared vector v.  The
\* result holds the two change slices (all false on entry) and v as left.
RECURSIVE algorithm_lcs(_, _, _)

\* the changes of the two subproblems lo and hi, put back around the snake
lcs_join(lo, hi, sms) ==
  [change1 |-> lo.change1 \o MakeBools(sms.ret[3] - sms.ret[1]) \o hi.change1,
   change2 |-> lo.change2 \o MakeBools(sms.ret[4] - sms.ret[2]) \o hi.change2,
   v |-> hi.v]

\* the second subproblem, after the first one has returned lo
lcs_second(data1, data2, sms, lo) ==
  lcs_join(lo,
           algorithm_lcs(Slice(data1, sms.ret[3], Len(data1)),
                         Slice(data2, sms.ret[4], Len(data2)), lo.v),
           sms)

\* split the problem at the snake sms.ret = <<x0, y0, x1, y1>>
lcs_split(data1, data2, sms) ==
  lcs_second(data1, data2, sms,
             algorithm_lcs(Slice(data1, 0, sms.ret[1]), Slice(data2, 0, sms.ret[2]),
                           sms.v))

\* the result of find_one_sms as a snake; swap when the one item is data2's
one_sms(one, swap, v) ==
  IF swap THEN [ret |-> <<one[2], one[1], one[2], one[1]>>, v |-> v]
  ELSE [ret |-> <<one[1], one[2], one[1], one[2]>>, v |-> v]

\* lcs_switch that leaves the items of data2 unmarked when data1 is empty
lcs_switch_insert_unmarked(data1, data2, v) ==
  IF Len(data1) = 0
  THEN [change1 |-> <<>>, change2 |-> MakeBools(Len(data2)), v |-> v]
  ELSE IF Len(data2) = 0
  THEN [change1 |-> AllTrue(Len(data1)), change2 |-> <<>>, v |-> v]
  ELSE IF Len(data1) = 1 /\ Len(data2) = 1
  THEN [change1 |-> <<TRUE>>, change2 |-> <<TRUE>>, v |-> v]
  ELSE IF Len(data1) = 1
  THEN lcs_split(data1, data2, one_sms(find_one_sms(data1[1], data2), FALSE, v))
  ELSE IF Len(data2) = 1
  THEN lcs_split(data1, data2, one_sms(find_one_sms(data2[1], data1), TRUE, v))
  ELSE lcs_split(data1, data2, algorithm_sms(data1, data2, v))

\* the switch of algorithm_lcs, on the slices left after the matches at the
\* start and at the end are taken off
lcs_switch(data1, data2, v) ==
  IF Len(data1) = 0
  THEN [change1 |-> <<>>, change2 |-> AllTrue(Len(data2)), v |-> v]
  ELSE IF Len(data2) = 0
  THEN [change1 |-> AllTrue(Len(data1)), change2 |-> <<>>, v |-> v]
  ELSE IF Len(data1) = 1 /\ Len(data2) = 1
  THEN [change1 |-> <<TRUE>>, change2 |-> <<TRUE>>, v |-> v]
  ELSE IF Len(data1) = 1
  THEN lcs_split(data1, data2, one_sms(find_one_sms(data1[1], data2), FALSE, v))
  ELSE IF Len(data2) = 1
  THEN lcs_split(data1, data2, one_sms(find_one_sms(data2[1], data1), TRUE, v))
  ELSE lcs_split(data1, data2, algorithm_sms(data1, data2, v))

\* the changes r of the slices, in the change slices of the caller: s items
\* were taken off at the start and t at the end
lcs_wrap(s, t, r) ==
  [change1 |-> MakeBools(s) \o r.change1 \o MakeBools(t),
   change2 |-> MakeBools(s) \o r.change2 \o MakeBools(t),
   v |-> r.v]

\* algorithm_lcs once s matches at the start and t at the end are found
lcs_trimmed(data1, data2, v, s, t) ==
  lcs_wrap(s, t, lcs_switch(Slice(data1, s, Len(data1) - t),
                            Slice(data2, s, Len(data2) - t), v))

algorithm_lcs(data1, data2, v) ==
  lcs_trimmed(data1, data2, v, lcs_head(data1, data2, 0),
              lcs_tail(data1, data2, lcs_head(data1, data2, 0), 0))

\* do_diff: allocate v and run algorithm_lcs; <<change1, change2>>
do_diff(data1, data2) ==
  LET len1 == Len(data1)
      len2 == Len(data2)
      size == (len1 + len2 + 1) * 2 + 2
      v == [i \in 0..(size * 2 - 1) |-> 0]
      r == algorithm_lcs(data1, data2, v)
  IN <<r.change1, r.change2>>

\* ------------------------------------------------------------------------
\* Line comparator and hasher.  A line is a sequence of bytes (0..255).
\* ------------------------------------------------------------------------
\* a ^ b on non-negative integers
RECURSIVE BitXor(_, _)
BitXor(a, b) ==
  IF a = 0 THEN b
  ELSE IF b = 0 THEN a
  ELSE (((a % 2) + (b % 2)) % 2) + 2 * BitXor(a \div 2, b \div 2)

\* A uint32 is kept as <<high 16 bits, low 16 bits>>.
Xor32(a, b) == <<BitXor(a[1], b[1]), BitXor(a[2], b[2])>>

\* h >> n for n in 1..16
Shr32(h, n) == <<h[1] \div (2 ^ n), (h[1] % (2 ^ n)) * (2 ^ (16 - n)) + h[2] \div (2 ^ n)>>

\* ^h, the bitwise complement
Not32(h) == <<65535 - h[1], 65535 - h[2]>>

\* the reversed Castagnoli polynomial 0x82F63B78 behind crc32.Castagnoli
CastagnoliPoly == <<33526, 15224>>

\* one entry of crc32.MakeTable: n more shift steps of the bitwise CRC
RECURSIVE crc_shift(_, _, _)
crc_shift(crc, n, poly) ==
  IF n = 0 THEN crc
  ELSE crc_shift(IF crc[2] % 2 = 1 THEN Xor32(Shr32(crc, 1), poly) ELSE Shr32(crc, 1),
                 n - 1, poly)

\* crc32.MakeTable(poly): the entries lo..hi of the table, in order
RECURSIVE MakeTable(_, _, _)
MakeTable(poly, lo, hi) ==
  IF lo = hi THEN <<crc_shift(<<0, lo>>, 8, poly)>>
  ELSE MakeTable(poly, lo, (lo + hi) \div 2) \o MakeTable(poly, (lo + hi) \div 2 + 1, hi)

\* var crc_table = crc32.MakeTable(crc32.Castagnoli); entry i is crc_table[i + 1]
crc_table == MakeTable(CastagnoliPoly, 0, 255)

\* hash32: one byte into the running 32-bit hash
hash32(h, b) == Xor32(crc_table[BitXor(h[2] % 256, b) + 1], Shr32(h, 8))

\* convert byte to lower case
ToLowerByte(b) == IF b >= 65 /\ b <= 90 THEN b - 65 + 97 ELSE b

\* hash32 folded over the bytes of data from position i (1-based) on, each
\* byte lowered first when lower is set
RECURSIVE hash_fold(_, _, _, _)
hash_fold(h, data, i, lower) ==
  IF i > Len(data) THEN h
  ELSE hash_fold(hash32(h, IF lower THEN ToLowerByte(data[i]) ELSE data[i]),
                 data, i + 1, lower)

\* crc32.Update(0, crc_table, data): the CRC with its pre- and post-inversion
compute_hash_exact(data) == Not32(hash_fold(Not32(<<0, 0>>), data, 1, FALSE))

\* Test for space character
IsSpace(b) == b \in {32, 9, 11, 12}

\* the comparison flags main has parsed, as one record
Config(ignore_case, ignore_space_change, ignore_all_space, unicode) ==
  [ignore_case |-> ignore_case, ignore_space_change |-> ignore_space_change,
   ignore_all_space |-> ignore_all_space, unicode |-> unicode]

\* the position (0-based) of the first non-space byte of line at or after i,
\* or len(line)
RECURSIVE skip_space_byte(_, _)
skip_space_byte(line, i) ==
  IF i < Len(line) /\ IsSpace(line[i + 1]) THEN skip_space_byte(line, i + 1) ELSE i

\* <<the byte at i, the position after it and the spaces that follow it>>
get_next_byte_nonspace(line, i) == <<line[i + 1], skip_space_byte(line, i + 1)>>

\* <<the byte at i, whether spaces follow it that do not reach the end of the
\* line, the position after it and the spaces that follow it>>
get_next_byte_xspace(line, i) ==
  <<line[i + 1],
    skip_space_byte(line, i + 1) > i + 1 /\ skip_space_byte(line, i + 1) < Len(line),
    skip_space_byte(line, i + 1)>>

\* v1 == v2 after "if flag_cmp_ignore_case && v1 != v2 { lower both }"
same_byte(v1, v2, ignore_case) ==
  IF ignore_case /\ v1 # v2 THEN ToLowerByte(v1) = ToLowerByte(v2) ELSE v1 = v2

\* compare_line_bytes, case flag_cmp_ignore_all_space: the loop from i, j on
\* and the test after it
RECURSIVE bytes_all_space_loop(_, _, _, _, _)
bytes_all_space_loop(line1, line2, i, j, ignore_case) ==
  IF i < Len(line1) /\ j < Len(line2)
  THEN /\ same_byte(get_next_byte_nonspace(line1, i)[1],
                    get_next_byte_nonspace(line2, j)[1], ignore_case)
       /\ bytes_all_space_loop(line1, line2, get_next_byte_nonspace(line1, i)[2],
                               get_next_byte_nonspace(line2, j)[2], ignore_case)
  ELSE ~(i < Len(line1) \/ j < Len(line2))

\* compare_line_bytes, case flag_cmp_ignore_space_change: the loop and the
\* test after it
RECURSIVE bytes_space_change_loop(_, _, _, _, _)
bytes_space_change_loop(line1, line2, i, j, ignore_case) ==
  IF i < Len(line1) /\ j < Len(line2)
  THEN /\ same_byte(get_next_byte_xspace(line1, i)[1],
                    get_next_byte_xspace(line2, j)[1], ignore_case)
       /\ get_next_byte_xspace(line1, i)[2] = get_next_byte_xspace(line2, j)[2]
       /\ bytes_space_change_loop(line1, line2, get_next_byte_xspace(line1, i)[3],
                                  get_next_byte_xspace(line2, j)[3], ignore_case)
  ELSE ~(i < Len(line1) \/ j < Len(line2))

compare_line_bytes(cfg, line1, line2) ==
  IF cfg.ignore_all_space
  THEN bytes_all_space_loop(line1, line2, skip_space_byte(line1, 0),
                            skip_space_byte(line2, 0), cfg.ignore_case)
  ELSE IF cfg.ignore_space_change
  THEN bytes_space_change_loop(line1, line2, skip_space_byte(line1, 0),
                               skip_space_byte(line2, 0), cfg.ignore_case)
  ELSE IF cfg.ignore_case
  THEN /\ Len(line1) = Len(line2)
       /\ \A i \in 1..Len(line1) : ToLowerByte(line1[i]) = ToLowerByte(line2[i])
  ELSE TRUE

\* utf8.RuneError, the rune DecodeRune returns for bytes that are no UTF-8
RuneError == 65533

\* utf8.DecodeRune(line[i:]) as <<rune, size>>, for i < len(line) and bytes
\* below 0xE0: an ASCII byte, a two-byte sequence, or RuneError of size 1
DecodeRune(line, i) ==
  IF line[i + 1] < 128 THEN <<line[i + 1], 1>>
  ELSE IF /\ line[i + 1] >= 194 /\ line[i + 1] <= 223 /\ i + 1 < Len(line)
          /\ line[i + 2] >= 128 /\ line[i + 2] <= 191
  THEN <<(line[i + 1] % 32) * 64 + (line[i + 2] % 64), 2>>
  ELSE <<RuneError, 1>>

\* unicode.ToLower on the runes below U+0100 and RuneError
unicode_ToLower(r) ==
  IF (r >= 65 /\ r <= 90) \/ (r >= 192 /\ r <= 222 /\ r # 215) THEN r + 32 ELSE r

\* unicode.IsSpace on the runes below U+0100 and RuneError
unicode_IsSpace(r) == r \in {9, 10, 11, 12, 13, 32, 133, 160}

RECURSIVE skip_space_rune(_, _)
skip_space_rune(line, i) ==
  IF i < Len(line) /\ unicode_IsSpace(DecodeRune(line, i)[1])
  THEN skip_space_rune(line, i + DecodeRune(line, i)[2])
  ELSE i

\* Get the next rune, and skip spaces after it
get_next_rune_nonspace(line, i) ==
  <<DecodeRune(line, i)[1], skip_space_rune(line, i + DecodeRune(line, i)[2])>>

\* Get the next rune, and determine if there is a space after it.
\* Also ignore trailing spaces at end-of-line
get_next_rune_xspace(line, i) ==
  <<DecodeRune(line, i)[1],
    /\ skip_space_rune(line, i + DecodeRune(line, i)[2]) > i + DecodeRune(line, i)[2]
    /\ skip_space_rune(line, i + DecodeRune(line, i)[2]) < Len(line),
    skip_space_rune(line, i + DecodeRune(line, i)[2])>>

\* v1 == v2 after "if flag_cmp_ignore_case && v1 != v2 { lower both }"
same_rune(v1, v2, ignore_case) ==
  IF ignore_case /\ v1 # v2 THEN unicode_ToLower(v1) = unicode_ToLower(v2)
  ELSE v1 = v2

RECURSIVE unicode_all_space_loop(_, _, _, _, _)
unicode_all_space_loop(line1, line2, i, j, ignore_case) ==
  IF i < Len(line1) /\ j < Len(line2)
  THEN /\ same_rune(get_next_rune_nonspace(line1, i)[1],
                    get_next_rune_nonspace(line2, j)[1], ignore_case)
       /\ unicode_all_space_loop(line1, line2, get_next_rune_nonspace(line1, i)[2],
                                 get_next_rune_nonspace(line2, j)[2], ignore_case)
  ELSE ~(i < Len(line1) \/ j < Len(line2))

RECURSIVE unicode_space_change_loop(_, _, _, _, _)
unicode_space_change_loop(line1, line2, i, j, ignore_case) ==
  IF i < Len(line1) /\ j < Len(line2)
  THEN /\ same_rune(get_next_rune_xspace(line1, i)[1],
                    get_next_rune_xspace(line2, j)[1], ignore_case)
       /\ get_next_rune_xspace(line1, i)[2] = get_next_rune_xspace(line2, j)[2]
       /\ unicode_space_change_loop(line1, line2, get_next_rune_xspace(line1, i)[3],
                                    get_next_rune_xspace(line2, j)[3], ignore_case)
  ELSE ~(i < Len(line1) \/ j < Len(line2))

\* compare_line_unicode, case flag_cmp_ignore_case: the loop and the test
\* after it
RECURSIVE unicode_ignore_case_loop(_, _, _, _)
unicode_ignore_case_loop(line1, line2, i, j) ==
  IF i < Len(line1) /\ j < Len(line2)
  THEN /\ \/ DecodeRune(line1, i)[1] = DecodeRune(line2, j)[1]
          \/ unicode_ToLower(DecodeRune(line1, i)[1])
               = unicode_ToLower(DecodeRune(line2, j)[1])
       /\ unicode_ignore_case_loop(line1, line2, i + DecodeRune(line1, i)[2],
                                   j + DecodeRune(line2, j)[2])
  ELSE ~(i < Len(line1) \/ j < Len(line2))

compare_line_unicode(cfg, line1, line2) ==
  IF cfg.ignore_all_space
  THEN unicode_all_space_loop(line1, line2, skip_space_rune(line1, 0),
                              skip_space_rune(line2, 0), cfg.ignore_case)
  ELSE IF cfg.ignore_space_change
  THEN unicode_space_change_loop(line1, line2, skip_space_rune(line1, 0),
                                 skip_space_rune(line2, 0), cfg.ignore_case)
  ELSE IF cfg.ignore_case
  THEN Len(line1) = Len(line2) /\ unicode_ignore_case_loop(line1, line2, 0, 0)
  ELSE TRUE

\* hash32 over the bytes of r, lowest first, up to its highest nonzero byte
RECURSIVE hash32_unicode(_, _)
hash32_unicode(h, r) ==
  IF r = 0 THEN h ELSE hash32_unicode(hash32(h, r % 256), r \div 256)

\* compute_hash_bytes, case flag_cmp_ignore_all_space, from position i
\* (1-based) on
RECURSIVE hash_bytes_all_space(_, _, _, _)
hash_bytes_all_space(hash, line1, i, ignore_case) ==
  IF i > Len(line1) THEN hash
  ELSE hash_bytes_all_space(
         IF IsSpace(line1[i]) THEN hash
         ELSE hash32(hash, IF ignore_case THEN ToLowerByte(line1[i]) ELSE line1[i]),
         line1, i + 1, ignore_case)

\* hash_bytes_space_change that keeps the hash of a trailing space
RECURSIVE hash_bytes_space_change_kept(_, _, _, _, _, _)
hash_bytes_space_change_kept(hash, last_hash, last_space, line1, i, ignore_case) ==
  IF i > Len(line1) THEN hash
  ELSE IF IsSpace(line1[i])
  THEN hash_bytes_space_change_kept(IF last_space THEN hash ELSE hash32(hash, 32),
                                    last_hash, TRUE, line1, i + 1, ignore_case)
  ELSE hash_bytes_space_change_kept(
         hash32(hash, IF ignore_case THEN ToLowerByte(line1[i]) ELSE line1[i]),
         last_hash, FALSE, line1, i + 1, ignore_case)

\* compute_hash_bytes, case flag_cmp_ignore_space_change, from position i
\* (1-based) on
RECURSIVE hash_bytes_space_change(_, _, _, _, _, _)
hash_bytes_space_change(hash, last_hash, last_space, line1, i, ignore_case) ==
  IF i > Len(line1) THEN (IF last_space THEN last_hash ELSE hash)
  ELSE IF IsSpace(line1[i])
  THEN hash_bytes_space_change(IF last_space THEN hash ELSE hash32(hash, 32),
                               IF last_space THEN last_hash ELSE hash,
                               TRUE, line1, i + 1, ignore_case)
  ELSE hash_bytes_space_change(
         hash32(hash, IF ignore_case THEN ToLowerByte(line1[i]) ELSE line1[i]),
         last_hash, FALSE, line1, i + 1, ignore_case)

\* compute_hash_bytes that does not fold the case of the bytes
compute_hash_bytes_unfolded(cfg, line1) == hash_fold(<<0, 0>>, line1, 1, FALSE)

compute_hash_bytes(cfg, line1) ==
  IF cfg.ignore_all_space
  THEN hash_bytes_all_space(<<0, 0>>, line1, 1, cfg.ignore_case)
  ELSE IF cfg.ignore_space_change
  THEN hash_bytes_space_change(<<0, 0>>, <<0, 0>>, TRUE, line1, 1, cfg.ignore_case)
  ELSE IF cfg.ignore_case
  THEN hash_fold(<<0, 0>>, line1, 1, TRUE)
  ELSE <<0, 0>>

\* compute_hash_unicode, case flag_cmp_ignore_all_space, from position i
\* (0-based) on
RECURSIVE hash_unicode_all_space(_, _, _, _)
hash_unicode_all_space(hash, line1, i, ignore_case) ==
  IF i >= Len(line1) THEN hash
  ELSE hash_unicode_all_space(
         IF unicode_IsSpace(DecodeRune(line1, i)[1]) THEN hash
         ELSE hash32_unicode(hash, IF ignore_case
                                   THEN unicode_ToLower(DecodeRune(line1, i)[1])
                                   ELSE DecodeRune(line1, i)[1]),
         line1, i + DecodeRune(line1, i)[2], ignore_case)

\* compute_hash_unicode, case flag_cmp_ignore_space_change
RECURSIVE hash_unicode_space_change(_, _, _, _, _, _)
hash_unicode_space_change(hash, last_hash, last_space, line1, i, ignore_case) ==
  IF i >= Len(line1) THEN (IF last_space THEN last_hash ELSE hash)
  ELSE IF unicode_IsSpace(DecodeRune(line1, i)[1])
  THEN hash_unicode_space_change(IF last_space THEN hash ELSE hash32(hash, 32),
                                 IF last_space THEN last_hash ELSE hash,
                                 TRUE, line1, i + DecodeRune(line1, i)[2], ignore_case)
  ELSE hash_unicode_space_change(
         hash32_unicode(hash, IF ignore_case
                              THEN unicode_ToLower(DecodeRune(line1, i)[1])
                              ELSE DecodeRune(line1, i)[1]),
         last_hash, FALSE, line1, i + DecodeRune(line1, i)[2], ignore_case)

\* compute_hash_unicode, case flag_cmp_ignore_case
RECURSIVE hash_unicode_ignore_case(_, _, _)
hash_unicode_ignore_case(hash, line1, i) ==
  IF i >= Len(line1) THEN hash
  ELSE hash_unicode_ignore_case(
         hash32_unicode(hash, unicode_ToLower(DecodeRune(line1, i)[1])),
         line1, i + DecodeRune(line1, i)[2])

compute_hash_unicode(cfg, line1) ==
  IF cfg.ignore_all_space
  THEN hash_unicode_all_space(<<0, 0>>, line1, 0, cfg.ignore_case)
  ELSE IF cfg.ignore_space_change
  THEN hash_unicode_space_change(<<0, 0>>, <<0, 0>>, TRUE, line1, 0, cfg.ignore_case)
  ELSE IF cfg.ignore_case
  THEN hash_unicode_ignore_case(<<0, 0>>, line1, 0)
  ELSE <<0, 0>>

\* the blank line
blank_line == <<>>

\* the comparator and the hash main selects for the comparison flags
compare_line(cfg, line1, line2) ==
  IF cfg.ignore_case \/ cfg.ignore_space_change \/ cfg.ignore_all_space
  THEN IF cfg.unicode THEN compare_line_unicode(cfg, line1, line2)
       ELSE compare_line_bytes(cfg, line1, line2)
  ELSE line1 = line2

compute_hash(cfg, line) ==
  IF cfg.ignore_case \/ cfg.ignore_space_change \/ cfg.ignore_all_space
  THEN IF cfg.unicode THEN compute_hash_unicode(cfg, line)
       ELSE compute_hash_bytes(cfg, line)
  ELSE compute_hash_exact(line)

\* ------------------------------------------------------------------------
\* Equivalence classifier: find_equiv_lines
\* ------------------------------------------------------------------------
\* number of hash buckets for n lines in total: a power of two, at least 512
RECURSIVE bucket_count(_, _)
bucket_count(buckets, n) ==
  IF buckets < n * 2 THEN bucket_count(buckets * 2, n) ELSE buckets

\* int(hashcode) & (buckets - 1), for buckets a power of two up to 65536
bucket_of(hashcode, buckets) == hashcode[2] % buckets

\* chain_find trusting the hash: the lines are not compared
RECURSIVE chain_find_hash_only(_, _, _, _, _)
chain_find_hash_only(chain, n, hashcode, line, cfg) ==
  IF n > Len(chain) THEN -1
  ELSE IF chain[n].hash = hashcode THEN chain[n].id
  ELSE chain_find_hash_only(chain, n + 1, hashcode, line, cfg)

\* the id of the first entry of chain (from position n on) that has this hash
\* and compares equal, or -1 when the chain has none
RECURSIVE chain_find(_, _, _, _, _)
chain_find(chain, n, hashcode, line, cfg) ==
  IF n > Len(chain) THEN -1
  ELSE IF chain[n].hash = hashcode /\ compare_line(cfg, line, chain[n].line)
  THEN chain[n].id
  ELSE chain_find(chain, n + 1, hashcode, line, cfg)

\* the loop of find_equiv_lines over the lines of one side, from line i
\* (0-based) on.  eqhash maps a bucket in use to its chain of entries, head
\* first; hashf is the hash function in use, as a function on lines.
RECURSIVE classify_side(_, _, _, _, _, _, _, _)
classify_side(lines, i, ids, eqhash, next_id, buckets, hashf, cfg) ==
  IF i >= Len(lines) THEN [ids |-> ids, eqhash |-> eqhash, next_id |-> next_id]
  ELSE
    LET line == lines[i + 1]
        hashcode == hashf[line]
        ihash == bucket_of(hashcode, buckets)
        chain == eqhash[ihash]
        found == chain_find(chain, 1, hashcode, line, cfg)
        entry == [id |-> next_id, hash |-> hashcode, line |-> line]
    IN IF ihash \notin DOMAIN eqhash
       THEN classify_side(lines, i + 1, Append(ids, next_id),
                          [b \in DOMAIN eqhash \cup {ihash} |->
                             IF b = ihash THEN <<entry>> ELSE eqhash[b]],
                          next_id + 1, buckets, hashf, cfg)
       ELSE IF found # -1
       THEN classify_side(lines, i + 1, Append(ids, found), eqhash, next_id,
                          buckets, hashf, cfg)
       ELSE classify_side(lines, i + 1, Append(ids, next_id),
                          [eqhash EXCEPT ![ihash] =
                             <<chain[1]>> \o <<entry>> \o Tail(chain)],
                          next_id + 1, buckets, hashf, cfg)

\* has_ids of compress_equiv_ids: the ids that occur in ids
has_ids(ids) == {ids[i] : i \in 1..Len(ids)}

\* "v > max_id || !has_ids[v]": id v does not occur on the other side
excluded(v, max_id, has) == v > max_id \/ v \notin has

\* the first loop of compress_equiv_ids: trim from the beginning
RECURSIVE compress_head(_, _, _, _, _, _, _, _, _, _)
compress_head(ids1, ids2, max_id1, max_id2, has1, has2, i1, i2, c1, c2) ==
  IF ~(i1 < Len(ids1) /\ i2 < Len(ids2)) THEN [i1 |-> i1, i2 |-> i2, c1 |-> c1, c2 |-> c2]
  ELSE LET v1 == ids1[i1 + 1]
           v2 == ids2[i2 + 1]
       IN IF excluded(v1, max_id2, has2)
          THEN compress_head(ids1, ids2, max_id1, max_id2, has1, has2, i1 + 1, i2,
                             [c1 EXCEPT ![i1 + 1] = TRUE], c2)
          ELSE IF excluded(v2, max_id1, has1)
          THEN compress_head(ids1, ids2, max_id1, max_id2, has1, has2, i1, i2 + 1,
                             c1, [c2 EXCEPT ![i2 + 1] = TRUE])
          ELSE IF v1 = v2
          THEN compress_head(ids1, ids2, max_id1, max_id2, has1, has2, i1 + 1, i2 + 1,
                             c1, c2)
          ELSE [i1 |-> i1, i2 |-> i2, c1 |-> c1, c2 |-> c2]

\* the second loop of compress_equiv_ids: trim from the end
RECURSIVE compress_tail(_, _, _, _, _, _, _, _, _, _, _, _)
compress_tail(ids1, ids2, max_id1, max_id2, has1, has2, i1, i2, j1, j2, c1, c2) ==
  IF ~(i1 < j1 /\ i2 < j2) THEN [j1 |-> j1, j2 |-> j2, c1 |-> c1, c2 |-> c2]
  ELSE LET v1 == ids1[j1]
           v2 == ids2[j2]
       IN IF excluded(v1, max_id2, has2)
          THEN compress_tail(ids1, ids2, max_id1, max_id2, has1, has2, i1, i2,
                             j1 - 1, j2, [c1 EXCEPT ![j1] = TRUE], c2)
          ELSE IF excluded(v2, max_id1, has1)
          THEN compress_tail(ids1, ids2, max_id1, max_id2, has1, has2, i1, i2,
                             j1, j2 - 1, c1, [c2 EXCEPT ![j2] = TRUE])
          ELSE IF v1 = v2
          THEN compress_tail(ids1, ids2, max_id1, max_id2, has1, has2, i1, i2,
                             j1 - 1, j2 - 1, c1, c2)
          ELSE [j1 |-> j1, j2 |-> j2, c1 |-> c1, c2 |-> c2]

\* change with the entries lo..hi-1 (0-based) set to true
MarkRange(change, lo, hi) ==
  [i \in 1..Len(change) |-> IF lo < i /\ i <= hi THEN TRUE ELSE change[i]]

\* compress_side that uses next_id for a run and does not go on to the next
\* one
RECURSIVE compress_side_same_id(_, _, _, _, _, _, _, _)
compress_side_same_id(ids, p, has, max_id, next_id, lastexclude, zids, zcount) ==
  IF p > Len(ids) THEN [zids |-> zids, zcount |-> zcount, next_id |-> next_id]
  ELSE IF excluded(ids[p], max_id, has) /\ lastexclude
  THEN compress_side_same_id(ids, p + 1, has, max_id, next_id, TRUE,
                             [zids EXCEPT ![Len(zids)] = -next_id],
                             [zcount EXCEPT ![Len(zids)] = zcount[Len(zids)] + 1])
  ELSE IF excluded(ids[p], max_id, has)
  THEN compress_side_same_id(ids, p + 1, has, max_id, next_id, TRUE,
                             Append(zids, -ids[p]), Append(zcount, 1))
  ELSE compress_side_same_id(ids, p + 1, has, max_id, next_id, FALSE,
                             Append(zids, ids[p]), Append(zcount, 1))

\* compress_side that does not count the further lines of a run
RECURSIVE compress_side_uncounted(_, _, _, _, _, _, _, _)
compress_side_uncounted(ids, p, has, max_id, next_id, lastexclude, zids, zcount) ==
  IF p > Len(ids) THEN [zids |-> zids, zcount |-> zcount, next_id |-> next_id]
  ELSE IF excluded(ids[p], max_id, has) /\ lastexclude
  THEN compress_side_uncounted(ids, p + 1, has, max_id, next_id + 1, TRUE,
                               [zids EXCEPT ![Len(zids)] = -next_id], zcount)
  ELSE IF excluded(ids[p], max_id, has)
  THEN compress_side_uncounted(ids, p + 1, has, max_id, next_id, TRUE,
                               Append(zids, -ids[p]), Append(zcount, 1))
  ELSE compress_side_uncounted(ids, p + 1, has, max_id, next_id, FALSE,
                               Append(zids, ids[p]), Append(zcount, 1))

\* the zids/zcount loop of compress_equiv_ids over one side's trimmed ids,
\* from position p (1-based) on
RECURSIVE compress_side(_, _, _, _, _, _, _, _)
compress_side(ids, p, has, max_id, next_id, lastexclude, zids, zcount) ==
  IF p > Len(ids) THEN [zids |-> zids, zcount |-> zcount, next_id |-> next_id]
  ELSE LET v == ids[p]
           exclude == excluded(v, max_id, has)
           n == Len(zids)
       IN IF exclude /\ lastexclude
          THEN compress_side(ids, p + 1, has, max_id, next_id + 1, exclude,
                             [zids EXCEPT ![n] = -next_id],
                             [zcount EXCEPT ![n] = zcount[n] + 1])
          ELSE IF exclude
          THEN compress_side(ids, p + 1, has, max_id, next_id, exclude,
                             Append(zids, -v), Append(zcount, 1))
          ELSE compress_side(ids, p + 1, has, max_id, next_id, exclude,
                             Append(zids, v), Append(zcount, 1))

\* a LinesData; zids_nil stands for "zids == nil"
LinesData(ids, change, zids_nil, zids, zcount, zids_start, zids_end) ==
  [ids |-> ids, change |-> change, zids_nil |-> zids_nil, zids |-> zids,
   zcount |-> zcount, zids_start |-> zids_start, zids_end |-> zids_end]

\* compress_equiv_ids that builds zids even when a side has no line left
compress_equiv_ids_nocut(ids1, ids2, max_id1, max_id2) ==
  LET len1 == Len(ids1)
      len2 == Len(ids2)
      has1 == has_ids(ids1)
      has2 == has_ids(ids2)
      h == compress_head(ids1, ids2, max_id1, max_id2, has1, has2, 0, 0,
                         MakeBools(len1), MakeBools(len2))
      t == compress_tail(ids1, ids2, max_id1, max_id2, has1, has2, h.i1, h.i2,
                         len1, len2, h.c1, h.c2)
      i1 == h.i1
      i2 == h.i2
      j1 == t.j1
      j2 == t.j2
      next_id == MaxInt(max_id1, max_id2) + 1
      z1 == compress_side(Slice(ids1, i1, j1), 1, has2, max_id2, next_id, FALSE,
                          <<>>, <<>>)
      z2 == compress_side(Slice(ids2, i2, j2), 1, has1, max_id1, z1.next_id, FALSE,
                          <<>>, <<>>)
  IN <<LinesData(ids1, t.c1, FALSE, z1.zids, z1.zcount, i1, j1),
       LinesData(ids2, t.c2, FALSE, z2.zids, z2.zcount, i2, j2)>>

\* compress_equiv_ids on the ids of the two sides; <<lines1, lines2>>
compress_equiv_ids(ids1, ids2, max_id1, max_id2) ==
  LET len1 == Len(ids1)
      len2 == Len(ids2)
      has1 == has_ids(ids1)
      has2 == has_ids(ids2)
      h == compress_head(ids1, ids2, max_id1, max_id2, has1, has2, 0, 0,
                         MakeBools(len1), MakeBools(len2))
      t == compress_tail(ids1, ids2, max_id1, max_id2, has1, has2, h.i1, h.i2,
                         len1, len2, h.c1, h.c2)
      i1 == h.i1
      i2 == h.i2
      j1 == t.j1
      j2 == t.j2
      next_id == MaxInt(max_id1, max_id2) + 1
      z1 == compress_side(Slice(ids1, i1, j1), 1, has2, max_id2, next_id, FALSE,
                          <<>>, <<>>)
      z2 == compress_side(Slice(ids2, i2, j2), 1, has1, max_id1, z1.next_id, FALSE,
                          <<>>, <<>>)
  IN IF i1 = j1
     THEN <<LinesData(ids1, t.c1, TRUE, <<>>, <<>>, 0, 0),
            LinesData(ids2, MarkRange(t.c2, i2, j2), TRUE, <<>>, <<>>, 0, 0)>>
     ELSE IF i2 = j2
     THEN <<LinesData(ids1, MarkRange(t.c1, i1, j1), TRUE, <<>>, <<>>, 0, 0),
            LinesData(ids2, t.c2, TRUE, <<>>, <<>>, 0, 0)>>
     ELSE <<LinesData(ids1, t.c1, FALSE, z1.zids, z1.zcount, i1, j1),
            LinesData(ids2, t.c2, FALSE, z2.zids, z2.zcount, i2, j2)>>

\* find_equiv_lines with hash function hashf; <<info1, info2>>
find_equiv_lines(lines1, lines2, hashf, cfg, ignore_blank_lines) ==
  LET buckets == bucket_count(512, Len(lines1) + Len(lines2))
      hashcode == hashf[blank_line]
      seed == IF ignore_blank_lines
              THEN [b \in {bucket_of(hashcode, buckets)} |->
                      <<[id |-> 0, hash |-> hashcode, line |-> blank_line]>>]
              ELSE [b \in {} |-> <<>>]
      s1 == classify_side(lines1, 0, <<>>, seed, 1, buckets, hashf, cfg)
      max_id_f1 == s1.next_id - 1
      s2 == classify_side(lines2, 0, <<>>, s1.eqhash, s1.next_id, buckets, hashf,
                          cfg)
      max_id_f2 == s2.next_id - 1
  IN compress_equiv_ids(s1.ids, s2.ids, max_id_f1, max_id_f2)

\* ------------------------------------------------------------------------
\* Change expander: expand_change_list
\* ------------------------------------------------------------------------
\* expand_loop that takes every compressed entry for a single line
RECURSIVE expand_loop_single(_, _, _, _, _)
expand_loop_single(zcount, zchange, i, n, change) ==
  IF i > Len(zcount) THEN change
  ELSE IF zchange[i]
  THEN expand_loop_single(zcount, zchange, i + 1, n + 1, MarkRange(change, n, n + 1))
  ELSE expand_loop_single(zcount, zchange, i + 1, n + 1, change)

\* the loop of expand_change_list over zcount from entry i (1-based) on; n is
\* the 0-based position in change, the slice that starts at zids_start
RECURSIVE expand_loop(_, _, _, _, _)
expand_loop(zcount, zchange, i, n, change) ==
  IF i > Len(zcount) THEN change
  ELSE IF zchange[i]
  THEN expand_loop(zcount, zchange, i + 1, n + zcount[i],
                   MarkRange(change, n, n + zcount[i]))
  ELSE expand_loop(zcount, zchange, i + 1, n + zcount[i], change)

\* expand_change_list that starts from a bitmap with no line marked
expand_change_list_fresh(info, zchange) ==
  MakeBools(info.zids_start)
    \o expand_loop(info.zcount, zchange, 1, 0,
                   MakeBools(Len(info.change) - info.zids_start))

\* expand_change_list on one side: the side's change bitmap afterwards
expand_change_list(info, zchange) ==
  Slice(info.change, 0, info.zids_start)
    \o expand_loop(info.zcount, zchange, 1, 0,
                   Slice(info.change, info.zids_start, Len(info.change)))

\* ------------------------------------------------------------------------
\* Boundary shifter: do_shift_boundary, find_shift_boundary, shift_boundaries
\* ------------------------------------------------------------------------
\* do_shift_boundary that leaves the line the run has left marked as changed
RECURSIVE do_shift_boundary_grow(_, _, _, _)
do_shift_boundary_grow(start, end, offset, change) ==
  IF offset = 0 THEN change
  ELSE IF offset < 0
  THEN do_shift_boundary_grow(start - 1, end - 1, offset + 1,
                              [change EXCEPT ![start] = TRUE])
  ELSE do_shift_boundary_grow(start + 1, end + 1, offset - 1,
                              [change EXCEPT ![end + 1] = TRUE])

\* do_shift_boundary: move the run [start, end) by offset, one line at a time
RECURSIVE do_shift_boundary(_, _, _, _)
do_shift_boundary(start, end, offset, change) ==
  IF offset = 0 THEN change
  ELSE IF offset < 0
  THEN do_shift_boundary(start - 1, end - 1, offset + 1,
                         [change EXCEPT ![start] = TRUE, ![end] = FALSE])
  ELSE do_shift_boundary(start + 1, end + 1, offset - 1,
                         [change EXCEPT ![start + 1] = FALSE, ![end + 1] = TRUE])

\* end of the run of changes that holds position start
RECURSIVE run_end(_, _)
run_end(end, change) ==
  IF end < Len(change) /\ change[end + 1] THEN run_end(end + 1, change) ELSE end

\* shift_up that moves the run over any unchanged line, equal or not
RECURSIVE shift_up_any(_, _, _, _, _)
shift_up_any(start, end, up, data, change) ==
  IF start - up - 1 >= 0 /\ ~change[start - up]
  THEN shift_up_any(start, end, up + 1, data, change)
  ELSE up

\* how far the run [start, end) can move up
RECURSIVE shift_up(_, _, _, _, _)
shift_up(start, end, up, data, change) ==
  IF start - up - 1 >= 0 /\ ~change[start - up] /\ data[start - up] = data[end - up]
  THEN shift_up(start, end, up + 1, data, change)
  ELSE up

\* shift_down that moves the run over any unchanged line, equal or not
RECURSIVE shift_down_any(_, _, _, _, _)
shift_down_any(start, end, down, data, change) ==
  IF end + down < Len(data) /\ ~change[end + down + 1]
  THEN shift_down_any(start, end, down + 1, data, change)
  ELSE down

\* how far the run [start, end) can move down
RECURSIVE shift_down(_, _, _, _, _)
shift_down(start, end, down, data, change) ==
  IF end + down < Len(data) /\ ~change[end + down + 1]
     /\ data[end + down + 1] = data[start + down + 1]
  THEN shift_down(start, end, down + 1, data, change)
  ELSE down

\* find_shift_boundary that takes every chunk that can move up for merged
find_shift_boundary_merge_any(start, data, change) ==
  [end |-> run_end(start + 1, change),
   up |-> shift_up(start, run_end(start + 1, change), 0, data, change),
   down |-> shift_down(start, run_end(start + 1, change), 0, data, change),
   up_merge |-> TRUE,
   down_merge |->
     (run_end(start + 1, change)
        + shift_down(start, run_end(start + 1, change), 0, data, change) = Len(data))
     \/ change[run_end(start + 1, change)
                 + shift_down(start, run_end(start + 1, change), 0, data, change) + 1]]

\* find_shift_boundary: [end, up, down, up_merge, down_merge]
find_shift_boundary(start, data, change) ==
  LET dlen == Len(data)
      end == run_end(start + 1, change)
      up == shift_up(start, end, 0, data, change)
      down == shift_down(start, end, 0, data, change)
  IN [end |-> end, up |-> up, down |-> down,
      up_merge |-> (start - up = 0) \/ change[start - up],
      down_merge |-> (end + down = dlen) \/ change[end + down + 1]]

\* first position at or after start that is changed, or Len(change)
RECURSIVE next_change(_, _)
next_change(start, change) ==
  IF start < Len(change) /\ ~change[start + 1] THEN next_change(start + 1, change)
  ELSE start

\* start of the run of changes that ends just before nstart
RECURSIVE run_start(_, _)
run_start(nstart, change) ==
  IF nstart - 1 >= 0 /\ change[nstart] THEN run_start(nstart - 1, change) ELSE nstart

\* the offset in -up..down with the best boundary score, scanning from i on
RECURSIVE best_offset(_, _, _, _, _, _, _, _)
best_offset(i, down, start, end, data, score, offset, best_score) ==
  IF i > down THEN offset
  ELSE IF i # 0 /\ score[<<data[start + i + 1], data[end + i]>>] > best_score
  THEN best_offset(i + 1, down, start, end, data, score, i,
                   score[<<data[start + i + 1], data[end + i]>>])
  ELSE best_offset(i + 1, down, start, end, data, score, offset, best_score)

\* scoring function for shifting characters in a line.
rune_edge_score(r) ==
  IF r \in {32, 9, 11, 12} THEN 100
  ELSE IF r \in {60, 62, 40, 41, 91, 93, 39, 34} THEN 40
  ELSE 0

\* scoring character boundary, for finding a change chunk that is easier to
\* read
rune_bouundary_score(r1, r2) == rune_edge_score(r1) + rune_edge_score(r2)

\* no boundary score function (the nil passed by diff_file)
NoScore == <<>>

\* the scan of shift_boundaries from position start0 on; the change bitmap
\* when the scan ends
RECURSIVE shift_scan(_, _, _, _)
shift_scan(data, change, score, start0) ==
  LET clen == Len(change)
      start == next_change(start0, change)
      fb == find_shift_boundary(start, data, change)
      end == fb.end
      up == IF start = 0 THEN 0 ELSE fb.up
      down == IF start = 0 THEN 0 ELSE fb.down
      upc == do_shift_boundary(start, end, -up, change)
      nstart == run_start(start - up, upc)
      offset == best_offset(-up, down, start, end, data, score, 0,
                            score[<<data[start + 1], data[end]>>])
  IN IF start0 >= clen \/ start >= clen THEN change
     ELSE IF up > 0 /\ fb.up_merge
     THEN shift_scan(data, upc, score, IF nstart > 0 THEN nstart ELSE start)
     ELSE IF down > 0 /\ fb.down_merge
     THEN shift_scan(data, do_shift_boundary(start, end, down, change), score,
                     start + down)
     ELSE IF (up > 0 \/ down > 0) /\ score # NoScore
     THEN shift_scan(data, do_shift_boundary(start, end, offset, change), score,
                     IF offset > 0 THEN end + offset ELSE end)
     ELSE shift_scan(data, change, score, end)

\* shift_boundaries: the change bitmap after the call
shift_boundaries(data, change, boundary_score) == shift_scan(data, change, boundary_score, 0)

\* ------------------------------------------------------------------------
\* Hunk grouper: next_change_segment, add_change_segment
\* ------------------------------------------------------------------------
DIFF_OP_SAME == 1
DIFF_OP_MODIFY == 2
DIFF_OP_INSERT == 3
DIFF_OP_REMOVE == 4

DiffOp(op, start1, end1, start2, end2) ==
  [op |-> op, start1 |-> start1, end1 |-> end1, start2 |-> start2, end2 |-> end2]

\* skip the blank lines (id 0) at the beginning of [i, end)
RECURSIVE skip_blank_head(_, _, _)
skip_blank_head(i, end, data) ==
  IF i < end /\ data[i + 1] = 0 THEN skip_blank_head(i + 1, end, data) ELSE i

\* skip the blank lines (id 0) at the end of [i, j)
RECURSIVE skip_blank_tail(_, _, _)
skip_blank_tail(j, i, data) ==
  IF j > i /\ data[j] = 0 THEN skip_blank_tail(j - 1, i, data) ELSE j

\* next_change_segment that leaves the blank lines in the segment
next_change_segment_whole(start, change, data) ==
  LET end == run_end(start + 1, change)
  IN [end |-> end, i |-> start, j |-> end]

\* next_change_segment: [end, i, j]
next_change_segment(start, change, data) ==
  LET end == run_end(start + 1, change)
      i == skip_blank_head(start, end, data)
      j == skip_blank_tail(end, i, data)
  IN [end |-> end, i |-> i, j |-> j]

\* end1 and end2 of the last op of ops, 0 and 0 when ops is empty
last_end(ops) ==
  IF Len(ops) > 0 THEN <<ops[Len(ops)].end1, ops[Len(ops)].end2>> ELSE <<0, 0>>

\* hunk_ends that ends the hunk at every op, whatever the gaps
hunk_ends_always(ops, op, context_lines) == Len(ops) > 0

\* hunk_ends that compares the gaps with context_lines, not with twice that
hunk_ends_near(ops, op, context_lines) ==
  LET gap1 == op.start1 - last_end(ops)[1]
      gap2 == op.start2 - last_end(ops)[2]
  IN Len(ops) > 0 /\ (op.op = 0 \/ (gap1 > context_lines /\ gap2 > context_lines))

\* the test of add_change_segment: ops is passed to diff_lines before op
hunk_ends(ops, op, context_lines) ==
  LET gap1 == op.start1 - last_end(ops)[1]
      gap2 == op.start2 - last_end(ops)[2]
  IN Len(ops) > 0
     /\ (op.op = 0 \/ (gap1 > context_lines * 2 /\ gap2 > context_lines * 2))

\* context_after that takes all the lines up to op
context_after_whole(ops, op, context_lines) ==
  LET last1 == last_end(ops)[1]
      last2 == last_end(ops)[2]
  IN IF op.start1 > last1 \/ op.start2 > last2
     THEN Append(ops, DiffOp(DIFF_OP_SAME, last1, op.start1, last2, op.start2))
     ELSE ops

\* ops with the context lines after its last op: the hunk for diff_lines
context_after(ops, op, context_lines) ==
  LET last1 == last_end(ops)[1]
      last2 == last_end(ops)[2]
      e1 == MinInt(op.start1, last1 + context_lines)
      e2 == MinInt(op.start2, last2 + context_lines)
  IN IF e1 > last1 \/ e2 > last2
     THEN Append(ops, DiffOp(DIFF_OP_SAME, last1, e1, last2, e2))
     ELSE ops

\* context_before that takes all the lines from last1 and last2 on
context_before_whole(ops, last1, last2, op, context_lines) ==
  IF last1 < op.start1 \/ last2 < op.start2
  THEN Append(ops, DiffOp(DIFF_OP_SAME, last1, op.start1, last2, op.start2))
  ELSE ops

\* ops with the context lines before op; last1 and last2 are the ends of the
\* op before op
context_before(ops, last1, last2, op, context_lines) ==
  LET c1 == MaxInt(last1, op.start1 - context_lines)
      c2 == MaxInt(last2, op.start2 - context_lines)
  IN IF c1 < op.start1 \/ c2 < op.start2
     THEN Append(ops, DiffOp(DIFF_OP_SAME, c1, op.start1, c2, op.start2))
     ELSE ops

\* add_change_segment with context_lines lines of context: [ops, out], where
\* out holds the hunk handed to diff_lines, if any
add_change_segment(ops, op, context_lines) ==
  LET flush == hunk_ends(ops, op, context_lines)
      ops1 == IF flush THEN <<>> ELSE ops
      ops2 == context_before(ops1, last_end(ops)[1], last_end(ops)[2], op,
                             context_lines)
      ops3 == IF op.op # 0 THEN Append(ops2, op) ELSE ops2
  IN [ops |-> ops3,
      out |-> IF flush THEN <<context_after(ops, op, context_lines)>> ELSE <<>>]

\* ------------------------------------------------------------------------
\* State
\* ------------------------------------------------------------------------
\* ------------------------------------------------------------------------
\* Filedata, split_lines
\* ------------------------------------------------------------------------
MSG_FILE_IS_BINARY == "This is a binary file"
MSG_FILE_DIFFERS == "File differs"
MSG_BIN_FILE_DIFFERS == "File differs. This is a binary file"

\* the Filedata open_file returns for a readable file with these bytes
Filedata(data) == [data |-> data, is_binary |-> FALSE, errormsg |-> ""]

\* split_loop that takes the LF after a CR for one more terminator
RECURSIVE split_loop_lf_again(_, _, _, _, _)
split_loop_lf_again(data, i, previ, lastb, lines) ==
  IF i >= Len(data)
  THEN [lines |-> IF Len(data) > previ
                  THEN Append(lines, Slice(data, previ, Len(data))) ELSE lines,
        is_binary |-> FALSE, errormsg |-> ""]
  ELSE IF data[i + 1] = 10 \/ data[i + 1] = 13
  THEN split_loop_lf_again(data, i + 1, i + 1, data[i + 1],
                           Append(lines, Slice(data, previ, i)))
  ELSE IF data[i + 1] = 0 /\ i < BINARY_CHECK_SIZE
  THEN [lines |-> <<>>, is_binary |-> TRUE, errormsg |-> MSG_FILE_IS_BINARY]
  ELSE split_loop_lf_again(data, i + 1, previ, data[i + 1], lines)

\* split_loop that takes a NUL byte anywhere for the mark of a binary file
RECURSIVE split_loop_any_nul(_, _, _, _, _)
split_loop_any_nul(data, i, previ, lastb, lines) ==
  IF i >= Len(data)
  THEN [lines |-> IF Len(data) > previ
                  THEN Append(lines, Slice(data, previ, Len(data))) ELSE lines,
        is_binary |-> FALSE, errormsg |-> ""]
  ELSE IF data[i + 1] = 10 /\ lastb = 13
  THEN split_loop_any_nul(data, i + 1, i + 1, data[i + 1], lines)
  ELSE IF data[i + 1] = 10 \/ data[i + 1] = 13
  THEN split_loop_any_nul(data, i + 1, i + 1, data[i + 1],
                          Append(lines, Slice(data, previ, i)))
  ELSE IF data[i + 1] = 0
  THEN [lines |-> <<>>, is_binary |-> TRUE, errormsg |-> MSG_FILE_IS_BINARY]
  ELSE split_loop_any_nul(data, i + 1, previ, data[i + 1], lines)

\* the loop of split_lines from index i (0-based) on, and the code after it:
\* the lines returned (nil as <<>>), and is_binary and errormsg of the file
RECURSIVE split_loop(_, _, _, _, _)
split_loop(data, i, previ, lastb, lines) ==
  IF i >= Len(data)
  THEN [lines |-> IF Len(data) > previ
                  THEN Append(lines, Slice(data, previ, Len(data))) ELSE lines,
        is_binary |-> FALSE, errormsg |-> ""]
  ELSE IF data[i + 1] = 10 /\ lastb = 13
  THEN split_loop(data, i + 1, i + 1, data[i + 1], lines)
  ELSE IF data[i + 1] = 10 \/ data[i + 1] = 13
  THEN split_loop(data, i + 1, i + 1, data[i + 1],
                  Append(lines, Slice(data, previ, i)))
  ELSE IF data[i + 1] = 0 /\ i < BINARY_CHECK_SIZE
  THEN [lines |-> <<>>, is_binary |-> TRUE, errormsg |-> MSG_FILE_IS_BINARY]
  ELSE split_loop(data, i + 1, previ, data[i + 1], lines)

\* split up data into text lines
split_lines(file) == split_loop(file.data, 0, 0, 0, <<>>)

VARIABLES
  pc,                            \* position in diff_file / report_diff
  lines1, lines2,                \* the lines of the two files (split_lines)
  flag_context_lines,            \* -c
  flag_cmp_ignore_blank_lines,   \* -B
  flag_cmp_ignore_case,          \* -i
  flag_cmp_ignore_space_change,  \* -b
  flag_cmp_ignore_all_space,     \* -w
  flag_unicode_case_and_space,   \* -unicode
  info1, info2,                  \* the LinesData of the two sides
  data1, data2,                  \* the arguments of the do_diff call
  zchange1, zchange2,            \* the results of the do_diff call
  i1, i2, ops, changed,          \* locals of report_diff
  hunks,                         \* the ops slices passed to diff_lines, in order
  ndiff,                         \* number of do_diff calls made so far
  hashf,                         \* the hash function in use (var compute_hash)
  line1, line2,                  \* the arguments of a compare_line call
  cmp,                           \* its result, and the hashes of the two lines
  file1, file2,                  \* the Filedata of the two files
  msgs,                          \* the messages passed to output_diff_message
  out_lock,                      \* the goroutine that holds out_lock, or 0
  out,                           \* the writes to out so far, in order
  job_queue, job_wait,           \* the channel of jobs, the WaitGroup counter
  njobs,                         \* number of queue_diff_file calls so far
  workers,                       \* the state of each worker goroutine
  shift_call,                    \* the arguments of a shift_boundaries call
  shift_out,                     \* change after each shift_boundaries call
  scan,                          \* the locals of the running shift_boundaries
  v_use,                         \* the cells of v that algorithm_sms touched
  v_vec,                         \* v, the slice do_diff makes
  lcs_stack,                     \* the algorithm_lcs calls still to be made
  sms_call                       \* the locals of the running algorithm_sms

vars == <<pc, lines1, lines2, flag_context_lines, flag_cmp_ignore_blank_lines,
          flag_cmp_ignore_case, info1, info2, data1, data2, zchange1, zchange2,
          i1, i2, ops, changed, hunks, ndiff, hashf,
          flag_cmp_ignore_space_change, flag_cmp_ignore_all_space,
          flag_unicode_case_and_space, line1, line2, cmp, file1, file2, msgs,
          out_lock, out, job_queue, job_wait, njobs, workers,
          shift_call, shift_out, scan, v_use, v_vec, lcs_stack, sms_call>>

flags == <<flag_context_lines, flag_cmp_ignore_blank_lines, flag_cmp_ignore_case,
           flag_cmp_ignore_space_change, flag_cmp_ignore_all_space,
           flag_unicode_case_and_space>>
comparev == <<line1, line2, cmp>>
filev == <<file1, file2, msgs>>
jobv == <<out_lock, out, job_queue, job_wait, njobs, workers>>
shiftv == <<shift_call, shift_out, scan>>
smsv == <<v_use, v_vec, lcs_stack, sms_call>>
otherv == <<jobv, shiftv, smsv>>
inputs == <<lines1, lines2, hashf, comparev, filev, otherv>>
reportv == <<i1, i2, ops, changed, hunks>>
diffv == <<data1, data2, zchange1, zchange2, ndiff>>

\* the comparison flags in force
Cfg == Config(flag_cmp_ignore_case, flag_cmp_ignore_space_change,
              flag_cmp_ignore_all_space, flag_unicode_case_and_space)

\* the lines of the short files: "", "a", "A"
LineSet == {<<>>, <<97>>, <<65>>}

\* the lines of the long files: "a", "b"
LongLineSet == {<<97>>, <<98>>}

\* the ids do_diff is called with in SpecDiff: positive ids and negative
\* sentinels
IdSet == (1..MaxId) \cup {-1}

NoInfo == LinesData(<<>>, <<>>, TRUE, <<>>, <<>>, 0, 0)

\* the hash function main selects, as a function on the lines of the two
\* files
HashFn ==
  [l \in {lines1[i] : i \in 1..Len(lines1)} \cup {lines2[i] : i \in 1..Len(lines2)}
        \cup {blank_line} |-> compute_hash(Cfg, l)]

\* -b, -w and -unicode are not given
NoSpaceFlags ==
  /\ flag_cmp_ignore_space_change = FALSE
  /\ flag_cmp_ignore_all_space = FALSE
  /\ flag_unicode_case_and_space = FALSE

\* no compare_line call is under way
NoCompare == line1 = <<>> /\ line2 = <<>> /\ cmp = <<>>

\* no file is open and nothing is reported
NoFile == file1 = Filedata(<<>>) /\ file2 = Filedata(<<>>) /\ msgs = <<>>

\* no worker goroutine is started and nothing is written to out
NoJobs ==
  /\ out_lock = 0 /\ out = <<>> /\ job_queue = <<>> /\ job_wait = 0
  /\ njobs = 0 /\ workers = <<>>

\* no shift_boundaries call is under way
NoShift == shift_call = <<>> /\ shift_out = <<>> /\ scan = <<>>

\* no algorithm_sms call is under way
NoSmsCall == <<>>

\* v is not made and no cell of it is touched
NoSms == v_use = {} /\ v_vec = <<>> /\ lcs_stack = <<>> /\ sms_call = NoSmsCall

\* the locals of diff_file before it compares anything
NoDiffFile ==
  /\ info1 = NoInfo /\ info2 = NoInfo
  /\ data1 = <<>> /\ data2 = <<>>
  /\ zchange1 = <<>> /\ zchange2 = <<>> /\ ndiff = 0
  /\ i1 = 0 /\ i2 = 0 /\ ops = <<>> /\ changed = FALSE
  /\ hunks = <<>>

\* the state before diff_file compares the two files
InitRest ==
  /\ pc = "start"
  /\ NoSpaceFlags /\ NoCompare /\ NoFile /\ NoJobs /\ NoShift /\ NoSms
  /\ info1 = NoInfo /\ info2 = NoInfo
  /\ data1 = <<>> /\ data2 = <<>>
  /\ zchange1 = <<>> /\ zchange2 = <<>> /\ ndiff = 0
  /\ i1 = 0 /\ i2 = 0 /\ ops = <<>> /\ changed = FALSE
  /\ hunks = <<>>
  /\ hashf = HashFn

\* short files, every comparison flag
InitShort ==
  /\ lines1 \in SeqsUpTo(LineSet, MaxLen)
  /\ lines2 \in SeqsUpTo(LineSet, MaxLen)
  /\ flag_context_lines \in 0..MaxCtx
  /\ flag_cmp_ignore_blank_lines \in BOOLEAN
  /\ flag_cmp_ignore_case \in BOOLEAN
  /\ InitRest

\* long files, the exact configuration
InitLong ==
  /\ lines1 \in SeqsUpTo(LongLineSet, MaxLongLen)
  /\ lines2 \in SeqsUpTo(LongLineSet, MaxLongLen)
  /\ flag_context_lines \in 0..MaxCtx
  /\ flag_cmp_ignore_blank_lines = FALSE
  /\ flag_cmp_ignore_case = FALSE
  /\ InitRest

\* files of three distinct lines, one of them blank; -B on or off
InitMid ==
  /\ lines1 \in SeqsUpTo(LineSet, MaxMidLen)
  /\ lines2 \in SeqsUpTo(LineSet, MinInt(MaxMidLen, MaxMidTotal - Len(lines1)))
  /\ flag_context_lines \in 0..MaxCtx
  /\ flag_cmp_ignore_blank_lines \in BOOLEAN
  /\ flag_cmp_ignore_case = FALSE
  /\ InitRest

Init == InitShort \/ InitMid \/ InitLong

\* a bare do_diff call on two id sequences
InitDiff ==
  /\ pc = "diff_call"
  /\ data1 \in SeqsUpTo(IdSet, MaxIdLen)
  /\ data2 \in SeqsUpTo(IdSet, MaxIdLen)
  /\ lines1 = <<>> /\ lines2 = <<>>
  /\ flag_context_lines = 0
  /\ flag_cmp_ignore_blank_lines = FALSE
  /\ flag_cmp_ignore_case = FALSE
  /\ info1 = NoInfo /\ info2 = NoInfo
  /\ zchange1 = <<>> /\ zchange2 = <<>> /\ ndiff = 0
  /\ i1 = 0 /\ i2 = 0 /\ ops = <<>> /\ changed = FALSE
  /\ hunks = <<>>
  /\ hashf = <<>>
  /\ NoSpaceFlags /\ NoCompare /\ NoFile /\ NoJobs /\ NoShift /\ NoSms

\* ------------------------------------------------------------------------
\* diff_file
\* ------------------------------------------------------------------------
\* bytes.Equal(file1.data, file2.data): the files are the same, nothing is
\* compared.  Files with the same bytes have the same lines; files with the
\* same lines may still differ in their line terminators.
Identical ==
  /\ pc = "start"
  /\ lines1 = lines2
  /\ pc' = "identical"
  /\ UNCHANGED <<inputs, flags, info1, info2, diffv, reportv>>

\* info1, info2 := find_equiv_lines(lines1, lines2)
FindEquivLines ==
  /\ pc = "start"
  /\ LET r == find_equiv_lines(lines1, lines2, hashf, Cfg,
                               flag_cmp_ignore_blank_lines)
     IN info1' = r[1] /\ info2' = r[2]
  /\ pc' = "classified"
  /\ UNCHANGED <<inputs, flags, diffv, reportv>>

\* zchange1, zchange2 := do_diff(info1.zids, info2.zids)
DoDiff ==
  /\ pc = "classified"
  /\ ~info1.zids_nil /\ ~info2.zids_nil
  /\ data1' = info1.zids /\ data2' = info2.zids
  /\ LET r == do_diff(info1.zids, info2.zids)
     IN zchange1' = r[1] /\ zchange2' = r[2]
  /\ ndiff' = ndiff + 1
  /\ pc' = "diffed"
  /\ UNCHANGED <<inputs, flags, info1, info2, reportv>>

\* expand_change_list(info1, info2, zchange1, zchange2)
ExpandChangeList ==
  /\ pc = "diffed"
  /\ info1' = [info1 EXCEPT !.change = expand_change_list(info1, zchange1)]
  /\ info2' = [info2 EXCEPT !.change = expand_change_list(info2, zchange2)]
  /\ pc' = "expanded"
  /\ UNCHANGED <<inputs, flags, diffv, reportv>>

\* no zids: find_equiv_lines has done the comparison already
SkipDiff ==
  /\ pc = "classified"
  /\ info1.zids_nil \/ info2.zids_nil
  /\ pc' = "expanded"
  /\ UNCHANGED <<inputs, flags, info1, info2, diffv, reportv>>

\* shift_boundaries on each side, then report_diff starts
ShiftBoundaries ==
  /\ pc = "expanded"
  /\ info1' = [info1 EXCEPT !.change = shift_boundaries(info1.ids, info1.change, NoScore)]
  /\ info2' = [info2 EXCEPT !.change = shift_boundaries(info2.ids, info2.change, NoScore)]
  /\ i1' = 0 /\ i2' = 0 /\ ops' = <<>> /\ changed' = FALSE
  /\ pc' = "report"
  /\ UNCHANGED <<inputs, flags, diffv, hunks>>

\* ------------------------------------------------------------------------
\* report_diff, one action for each case of its loop
\* ------------------------------------------------------------------------
len1 == Len(info1.change)
len2 == Len(info2.change)
change1 == info1.change
change2 == info2.change

InLoop == pc = "report" /\ (i1 < len1 \/ i2 < len2)

CaseSame == i1 < len1 /\ i2 < len2 /\ ~change1[i1 + 1] /\ ~change2[i2 + 1]
CaseBoth == i1 < len1 /\ i2 < len2 /\ change1[i1 + 1] /\ change2[i2 + 1]
CaseOne == i1 < len1 /\ change1[i1 + 1]
CaseTwo == i2 < len2 /\ change2[i2 + 1]

\* ops = add_change_segment(chg, ops, op); changed = true
AddSegment(op) ==
  LET r == add_change_segment(ops, op, flag_context_lines)
  IN /\ ops' = r.ops
     /\ hunks' = hunks \o r.out
     /\ changed' = TRUE

\* no change: advance both i1 and i2
ReportSame ==
  /\ InLoop /\ CaseSame
  /\ i1' = i1 + 1 /\ i2' = i2 + 1
  /\ UNCHANGED <<pc, inputs, flags, info1, info2, diffv, ops, changed, hunks>>

\* change in both lists
ReportBoth ==
  /\ InLoop /\ ~CaseSame /\ CaseBoth
  /\ LET s1 == next_change_segment(i1, change1, info1.ids)
         s2 == next_change_segment(i2, change2, info2.ids)
         op_mode == IF s1.i < s1.j /\ s2.i < s2.j THEN DIFF_OP_MODIFY
                    ELSE IF s1.i < s1.j THEN DIFF_OP_REMOVE
                    ELSE IF s2.i < s2.j THEN DIFF_OP_INSERT
                    ELSE 0
     IN /\ i1' = s1.end /\ i2' = s2.end
        /\ IF op_mode # 0
           THEN AddSegment(DiffOp(op_mode, s1.i, s1.j, s2.i, s2.j))
           ELSE UNCHANGED <<ops, changed, hunks>>
  /\ UNCHANGED <<pc, inputs, flags, info1, info2, diffv>>

\* change in the first list only
ReportRemove ==
  /\ InLoop /\ ~CaseSame /\ ~CaseBoth /\ CaseOne
  /\ LET s1 == next_change_segment(i1, change1, info1.ids)
     IN /\ i1' = s1.end
        /\ IF s1.i < s1.j
           THEN AddSegment(DiffOp(DIFF_OP_REMOVE, s1.i, s1.j, i2, i2))
           ELSE UNCHANGED <<ops, changed, hunks>>
  /\ UNCHANGED <<pc, inputs, flags, info1, info2, diffv, i2>>

\* change in the second list only
ReportInsert ==
  /\ InLoop /\ ~CaseSame /\ ~CaseBoth /\ ~CaseOne /\ CaseTwo
  /\ LET s2 == next_change_segment(i2, change2, info2.ids)
     IN /\ i2' = s2.end
        /\ IF s2.i < s2.j
           THEN AddSegment(DiffOp(DIFF_OP_INSERT, i1, i1, s2.i, s2.j))
           ELSE UNCHANGED <<ops, changed, hunks>>
  /\ UNCHANGED <<pc, inputs, flags, info1, info2, diffv, i1>>

\* the default case ("should not reach here"): return true at once
ReportDefault ==
  /\ InLoop /\ ~CaseSame /\ ~CaseBoth /\ ~CaseOne /\ ~CaseTwo
  /\ changed' = TRUE
  /\ pc' = "done_default"
  /\ UNCHANGED <<inputs, flags, info1, info2, diffv, i1, i2, ops, hunks>>

\* the loop is over: pass what is left in ops to diff_lines, return changed
ReportEnd ==
  /\ pc = "report" /\ ~(i1 < len1 \/ i2 < len2)
  /\ hunks' = IF Len(ops) > 0
              THEN hunks \o add_change_segment(ops, DiffOp(0, len1, len1, len2, len2),
                                               flag_context_lines).out
              ELSE hunks
  /\ pc' = "done"
  /\ UNCHANGED <<inputs, flags, info1, info2, diffv, i1, i2, ops, changed>>

\* the do_diff call of SpecDiff
DoDiffCall ==
  /\ pc = "diff_call"
  /\ LET r == do_diff(data1, data2)
     IN zchange1' = r[1] /\ zchange2' = r[2]
  /\ ndiff' = ndiff + 1
  /\ pc' = "diff_done"
  /\ UNCHANGED <<inputs, flags, info1, info2, data1, data2, reportv>>

\* The default case of report_diff is left out of Next: DefaultUnreachable
\* holds, so ReportDefault is never enabled.
Next ==
  \/ Identical
  \/ FindEquivLines
  \/ DoDiff
  \/ ExpandChangeList
  \/ SkipDiff
  \/ ShiftBoundaries
  \/ ReportSame
  \/ ReportBoth
  \/ ReportRemove
  \/ ReportInsert
  \/ ReportEnd

NextDiff == DoDiffCall

\* diff_file on two files
Spec == Init /\ [][Next]_vars

\* diff_file with the default case of report_diff as one more step
SpecDefault == Init /\ [][Next \/ ReportDefault]_vars

\* some case of the loop of report_diff applies whenever the loop runs, so
\* its default case is never taken
DefaultUnreachable ==
  /\ pc # "done_default"
  /\ InLoop => CaseSame \/ CaseBoth \/ CaseOne \/ CaseTwo

\* do_diff alone, on any two id sequences
SpecDiff == InitDiff /\ [][NextDiff]_vars

\* ------------------------------------------------------------------------
\* compare_line and compute_hash on two lines
\* ------------------------------------------------------------------------
\* space, "a", "A"
AsciiBytes == {32, 97, 65}
\* space, tab, "a"
SpaceBytes == {32, 9, 97}
\* the bytes of U+00E9 (C3 A9) and U+00C9 (C3 89), its upper case
AccentBytes == {195, 169, 137}
\* the bytes of U+00A0 (C2 A0), a Unicode space, and "a"
NbspBytes == {194, 160, 97}
\* space, "a"
LongBytes == {32, 97}

InitCompareRest ==
  /\ pc = "start"
  /\ cmp = <<>> /\ NoFile /\ NoJobs /\ NoShift /\ NoSms
  /\ lines1 = <<>> /\ lines2 = <<>> /\ hashf = <<>>
  /\ flag_context_lines = 0
  /\ flag_cmp_ignore_blank_lines = FALSE
  /\ flag_cmp_ignore_case \in BOOLEAN
  /\ flag_cmp_ignore_space_change \in BOOLEAN
  /\ flag_cmp_ignore_all_space \in BOOLEAN
  /\ NoDiffFile

\* two lines of at most MaxCmpLen bytes of one of the small byte sets, or of
\* at most MaxCmpLongLen bytes of LongBytes, under every comparison flag
InitCompare ==
  /\ \/ /\ line1 \in SeqsUpTo(AsciiBytes, MaxCmpLen)
        /\ line2 \in SeqsUpTo(AsciiBytes, MaxCmpLen)
        /\ flag_unicode_case_and_space \in BOOLEAN
     \/ /\ line1 \in SeqsUpTo(SpaceBytes, MaxCmpLen)
        /\ line2 \in SeqsUpTo(SpaceBytes, MaxCmpLen)
        /\ flag_unicode_case_and_space = FALSE
     \/ /\ line1 \in SeqsUpTo(LongBytes, MaxCmpLongLen)
        /\ line2 \in SeqsUpTo(LongBytes, MaxCmpLongLen)
        /\ flag_unicode_case_and_space = FALSE
     \/ /\ line1 \in SeqsUpTo(AccentBytes, MaxCmpLen)
        /\ line2 \in SeqsUpTo(AccentBytes, MaxCmpLen)
        /\ flag_unicode_case_and_space = TRUE
     \/ /\ line1 \in SeqsUpTo(NbspBytes, MaxCmpLen)
        /\ line2 \in SeqsUpTo(NbspBytes, MaxCmpLen)
        /\ flag_unicode_case_and_space = TRUE
  /\ InitCompareRest

\* compare_line(line1, line2), compute_hash(line1), compute_hash(line2) with
\* the functions main has selected
CompareLines ==
  /\ pc = "start"
  /\ cmp' = [equal |-> compare_line(Cfg, line1, line2),
             hash1 |-> compute_hash(Cfg, line1),
             hash2 |-> compute_hash(Cfg, line2)]
  /\ pc' = "compared"
  /\ UNCHANGED <<line1, line2, lines1, lines2, hashf, filev, otherv, flags, info1, info2,
                 diffv, reportv>>

NextCompare == CompareLines

SpecCompare == InitCompare /\ [][NextCompare]_vars

\* ------------------------------------------------------------------------
\* split_lines on one file
\* ------------------------------------------------------------------------
\* LF, CR, "a"
TextBytes == {10, 13, 97}

\* a file of at most MaxBufLen bytes, none of them NUL
InitSplit ==
  /\ pc = "open"
  /\ file1 \in {Filedata(d) : d \in SeqsUpTo(TextBytes, MaxBufLen)}
  /\ file2 = Filedata(<<>>) /\ msgs = <<>>
  /\ lines1 = <<>> /\ lines2 = <<>> /\ hashf = <<>>
  /\ flag_context_lines = 0
  /\ flag_cmp_ignore_blank_lines = FALSE
  /\ flag_cmp_ignore_case = FALSE
  /\ NoSpaceFlags /\ NoCompare /\ NoDiffFile /\ NoJobs /\ NoShift /\ NoSms

\* lines1 := file1.split_lines()
SplitLines1 ==
  /\ pc = "open"
  /\ lines1' = split_lines(file1).lines
  /\ file1' = [file1 EXCEPT !.is_binary = split_lines(file1).is_binary,
                            !.errormsg = split_lines(file1).errormsg]
  /\ pc' = "split"
  /\ UNCHANGED <<lines2, hashf, comparev, otherv, file2, msgs, flags, info1, info2,
                 diffv, reportv>>

NextSplit == SplitLines1

SpecSplit == InitSplit /\ [][NextSplit]_vars

\* ------------------------------------------------------------------------
\* diff_file from the two files on
\* ------------------------------------------------------------------------
\* NUL, LF, "a"
FileBytes == {0, 10, 97}

\* the hash function main selects, on every line the two files can hold
HashOnLines ==
  [l \in SeqsUpTo(FileBytes \ {10}, BINARY_CHECK_SIZE + 1) |-> compute_hash(Cfg, l)]

\* two readable files of at most BINARY_CHECK_SIZE + 1 bytes, the exact
\* comparison
InitFile ==
  /\ pc = "open"
  /\ file1 \in {Filedata(d) : d \in SeqsUpTo(FileBytes, BINARY_CHECK_SIZE + 1)}
  /\ file2 \in {Filedata(d) : d \in SeqsUpTo(FileBytes, BINARY_CHECK_SIZE + 1)}
  /\ msgs = <<>>
  /\ lines1 = <<>> /\ lines2 = <<>>
  /\ flag_context_lines = 0
  /\ flag_cmp_ignore_blank_lines = FALSE
  /\ flag_cmp_ignore_case = FALSE
  /\ NoSpaceFlags /\ NoCompare /\ NoDiffFile /\ NoJobs /\ NoShift /\ NoSms
  /\ hashf = HashOnLines

\* bytes.Equal(file1.data, file2.data): files are equal
IdenticalData ==
  /\ pc = "open"
  /\ file1.data = file2.data
  /\ pc' = "identical"
  /\ UNCHANGED <<inputs, flags, info1, info2, diffv, reportv>>

\* lines1 := file1.split_lines(); lines2 := file2.split_lines(), and the
\* test of is_binary that follows
SplitLines ==
  /\ pc = "open"
  /\ file1.data # file2.data
  /\ lines1' = split_lines(file1).lines
  /\ lines2' = split_lines(file2).lines
  /\ file1' = [file1 EXCEPT !.is_binary = split_lines(file1).is_binary,
                            !.errormsg = split_lines(file1).errormsg]
  /\ file2' = [file2 EXCEPT !.is_binary = split_lines(file2).is_binary,
                            !.errormsg = split_lines(file2).errormsg]
  /\ pc' = IF split_lines(file1).is_binary \/ split_lines(file2).is_binary
           THEN "binary" ELSE "start"
  /\ UNCHANGED <<hashf, comparev, otherv, msgs, flags, info1, info2, diffv, reportv>>

\* output_diff_message(..., msg1, msg2, true) for a binary file
ReportBinary ==
  /\ pc = "binary"
  /\ msgs' = <<IF file1.is_binary THEN MSG_BIN_FILE_DIFFERS ELSE MSG_FILE_DIFFERS,
               IF file2.is_binary THEN MSG_BIN_FILE_DIFFERS ELSE MSG_FILE_DIFFERS>>
  /\ pc' = "binary_reported"
  /\ UNCHANGED <<lines1, lines2, hashf, comparev, otherv, file1, file2, flags,
                 info1, info2, diffv, reportv>>

NextFile ==
  \/ IdenticalData
  \/ SplitLines
  \/ ReportBinary
  \/ FindEquivLines
  \/ DoDiff
  \/ ExpandChangeList
  \/ SkipDiff
  \/ ShiftBoundaries
  \/ ReportSame
  \/ ReportBoth
  \/ ReportRemove
  \/ ReportInsert
  \/ ReportEnd

SpecFile == InitFile /\ [][NextFile]_vars

\* ------------------------------------------------------------------------
\* the worker goroutines of diff_dirs and their writes to out (html output)
\* ------------------------------------------------------------------------
\* a file pair queued for comparison: whether the second file is a .csv file
\* with a header, whether diff_file reports a message for the pair (an error,
\* a binary file), and the number of hunks report_diff passes to diff_lines
\* for it otherwise
JobQueue(id, csv, message, nhunks) ==
  [id |-> id, csv |-> csv, message |-> message, nhunks |-> nhunks]

NoJob == JobQueue(0, FALSE, FALSE, 0)

\* a goroutine waiting in "for job := range job_queue"
IdleWorker == [pc |-> "idle", job |-> NoJob, header_printed |-> FALSE, left |-> 0]

\* one write of goroutine g to out, with the holder of out_lock at that time
Write(g, what, holder) ==
  [who |-> g, job |-> workers[g].job.id, what |-> what, holder |-> holder]

\* the state after job_queue_init
InitJobs ==
  /\ pc = "jobs"
  /\ out_lock = 0 /\ out = <<>> /\ job_queue = <<>> /\ job_wait = 0 /\ njobs = 0
  /\ workers = [g \in 1..flag_max_goroutines |-> IdleWorker]
  /\ lines1 = <<>> /\ lines2 = <<>> /\ hashf = <<>>
  /\ flag_context_lines = 0
  /\ flag_cmp_ignore_blank_lines = FALSE
  /\ flag_cmp_ignore_case = FALSE
  /\ NoSpaceFlags /\ NoCompare /\ NoFile /\ NoDiffFile /\ NoShift /\ NoSms

jobs_rest == <<pc, lines1, lines2, hashf, comparev, filev, shiftv, smsv, flags,
               info1, info2, diffv, reportv>>

\* queue_diff_file, called by diff_dirs: the channel holds one job at most
QueueDiffFile ==
  /\ njobs < MaxJobs
  /\ Len(job_queue) < 1
  /\ \E csv \in BOOLEAN : \E message \in BOOLEAN :
     \E nhunks \in 0..(IF message THEN 0 ELSE MaxHunks) :
       job_queue' = Append(job_queue, JobQueue(njobs + 1, csv, message, nhunks))
  /\ job_wait' = job_wait + 1
  /\ njobs' = njobs + 1
  /\ UNCHANGED <<out_lock, out, workers, jobs_rest>>

\* for job := range job_queue: goroutine g takes a job and enters diff_file
Receive(g) ==
  /\ workers[g].pc = "idle"
  /\ job_queue # <<>>
  /\ workers' = [workers EXCEPT ![g] =
                   [pc |-> "open", job |-> Head(job_queue),
                    header_printed |-> FALSE, left |-> Head(job_queue).nhunks]]
  /\ job_queue' = Tail(job_queue)
  /\ UNCHANGED <<out_lock, out, job_wait, njobs, jobs_rest>>

\* diff_file opens the two files; for a .csv file with a header it writes the
\* header to out
OpenFiles(g) ==
  /\ workers[g].pc = "open"
  /\ out' = IF workers[g].job.csv
            THEN Append(out, Write(g, "csv_header", out_lock)) ELSE out
  /\ workers' = [workers EXCEPT ![g].pc =
                   IF workers[g].job.message THEN "message" ELSE "report"]
  /\ UNCHANGED <<out_lock, job_queue, job_wait, njobs, jobs_rest>>

\* output_diff_message, GenerateHtml: html_file_table takes out_lock and
\* writes the header
MessageHeader(g) ==
  /\ workers[g].pc = "message"
  /\ out_lock = 0
  /\ out_lock' = g
  /\ out' = Append(out, Write(g, "header", g))
  /\ workers' = [workers EXCEPT ![g].pc = "message_rows"]
  /\ UNCHANGED <<job_queue, job_wait, njobs, jobs_rest>>

\* GenerateHtml writes the messages and releases out_lock; diff_file returns
MessageRows(g) ==
  /\ workers[g].pc = "message_rows"
  /\ out' = Append(out, Write(g, "message", out_lock))
  /\ out_lock' = 0
  /\ workers' = [workers EXCEPT ![g].pc = "done"]
  /\ UNCHANGED <<job_queue, job_wait, njobs, jobs_rest>>

\* chg.diff_lines(ops) for the next hunk: the first call takes out_lock and
\* writes the header before the hunk
DiffLines(g) ==
  /\ workers[g].pc = "report"
  /\ workers[g].left > 0
  /\ workers[g].header_printed \/ out_lock = 0
  /\ out_lock' = g
  /\ out' = out \o (IF workers[g].header_printed THEN <<>>
                    ELSE <<Write(g, "header", g)>>)
                \o <<Write(g, "hunk", g)>>
  /\ workers' = [workers EXCEPT ![g].header_printed = TRUE,
                                ![g].left = workers[g].left - 1]
  /\ UNCHANGED <<job_queue, job_wait, njobs, jobs_rest>>

\* diff_file after report_diff that closes the table and keeps out_lock
AfterReport_held(g) ==
  /\ workers[g].pc = "report"
  /\ workers[g].left = 0
  /\ IF workers[g].header_printed
     THEN out' = Append(out, Write(g, "table_end", out_lock))
     ELSE UNCHANGED out
  /\ UNCHANGED out_lock
  /\ \E show \in BOOLEAN :
       workers' = [workers EXCEPT
                     ![g].header_printed = FALSE,
                     ![g].pc = IF show /\ workers[g].job.nhunks = 0
                               THEN "message" ELSE "done"]
  /\ UNCHANGED <<job_queue, job_wait, njobs, jobs_rest>>

\* diff_file after report_diff: with a header printed it closes the table
\* and releases out_lock; with no change reported and flag_show_identical_files
\* set (show) it goes on to output_diff_message
AfterReport(g) ==
  /\ workers[g].pc = "report"
  /\ workers[g].left = 0
  /\ IF workers[g].header_printed
     THEN /\ out' = Append(out, Write(g, "table_end", out_lock))
          /\ out_lock' = 0
     ELSE UNCHANGED <<out, out_lock>>
  /\ \E show \in BOOLEAN :
       workers' = [workers EXCEPT
                     ![g].header_printed = FALSE,
                     ![g].pc = IF show /\ workers[g].job.nhunks = 0
                               THEN "message" ELSE "done"]
  /\ UNCHANGED <<job_queue, job_wait, njobs, jobs_rest>>

\* job_wait.Done() after diff_file has returned
JobDone(g) ==
  /\ workers[g].pc = "done"
  /\ job_wait' = job_wait - 1
  /\ workers' = [workers EXCEPT ![g] = IdleWorker]
  /\ UNCHANGED <<out_lock, out, job_queue, njobs, jobs_rest>>

NextJobs ==
  \/ QueueDiffFile
  \/ \E g \in 1..flag_max_goroutines : Receive(g)
  \/ \E g \in 1..flag_max_goroutines : OpenFiles(g)
  \/ \E g \in 1..flag_max_goroutines : MessageHeader(g)
  \/ \E g \in 1..flag_max_goroutines : MessageRows(g)
  \/ \E g \in 1..flag_max_goroutines : DiffLines(g)
  \/ \E g \in 1..flag_max_goroutines : AfterReport(g)
  \/ \E g \in 1..flag_max_goroutines : JobDone(g)

SpecJobs == InitJobs /\ [][NextJobs]_vars

\* the goroutines and diff_dirs are scheduled: a step that can be taken is
\* taken in the end
FairJobs == SpecJobs /\ WF_vars(NextJobs)

\* ------------------------------------------------------------------------
\* shift_boundaries on any data and change, called twice
\* ------------------------------------------------------------------------
ShiftArgs(data, change, boundary_score) ==
  [data |-> data, change |-> change, boundary_score |-> boundary_score]

\* the items of the short sequences
ShiftIds == {1, 2}

\* space, "(", "a": runes of the three scores of rune_edge_score
ShiftRunes == {32, 40, 97}

\* data of at most MaxShiftLen items with any change bitmap of its length and
\* no score function or any score function of values up to MaxScore, or
\* runes of a line with rune_bouundary_score
InitShift ==
  /\ pc = "shift"
  /\ \/ \E data \in SeqsUpTo(ShiftIds, MaxShiftLen) :
        \E change \in [1..Len(data) -> BOOLEAN] :
        \E score \in {NoScore} \cup [ShiftIds \X ShiftIds -> 0..MaxScore] :
          shift_call = ShiftArgs(data, change, score)
     \/ \E data \in SeqsUpTo(ShiftRunes, MaxRuneLen) :
        \E change \in [1..Len(data) -> BOOLEAN] :
          shift_call = ShiftArgs(data, change,
                                 [p \in ShiftRunes \X ShiftRunes |->
                                    rune_bouundary_score(p[1], p[2])])
  /\ shift_out = <<>> /\ scan = <<>>
  /\ lines1 = <<>> /\ lines2 = <<>> /\ hashf = <<>>
  /\ flag_context_lines = 0
  /\ flag_cmp_ignore_blank_lines = FALSE
  /\ flag_cmp_ignore_case = FALSE
  /\ NoSpaceFlags /\ NoCompare /\ NoFile /\ NoDiffFile /\ NoJobs /\ NoSms

shift_rest == <<scan, lines1, lines2, hashf, comparev, filev, jobv, smsv, flags,
                info1, info2, diffv, reportv>>

\* shift_boundaries(data, change, boundary_score)
ShiftOnce ==
  /\ pc = "shift"
  /\ shift_out' = <<shift_boundaries(shift_call.data, shift_call.change,
                                     shift_call.boundary_score)>>
  /\ pc' = "shifted"
  /\ UNCHANGED <<shift_call, shift_rest>>

\* shift_boundaries(data, change, boundary_score) once more, on the change
\* the first call has left
ShiftAgain ==
  /\ pc = "shifted"
  /\ shift_out' = Append(shift_out,
                         shift_boundaries(shift_call.data, shift_out[1],
                                          shift_call.boundary_score))
  /\ pc' = "shifted_twice"
  /\ UNCHANGED <<shift_call, shift_rest>>

NextShift == ShiftOnce \/ ShiftAgain

SpecShift == InitShift /\ [][NextShift]_vars

\* ------------------------------------------------------------------------
\* find_equiv_lines under any hash function
\* ------------------------------------------------------------------------
\* three uint32 hash values: the first two fall into the same bucket of a
\* table of 512 buckets, the third into another
HashValues == {<<0, 1>>, <<0, 513>>, <<0, 2>>}

\* h gives lines that compare equal the same hash value
Agrees(h, cfg) ==
  \A a \in DOMAIN h : \A b \in DOMAIN h :
    compare_line(cfg, a, b) => h[a] = h[b]

\* two short files and any hash function that agrees with compare_line
InitEquiv ==
  /\ pc = "start"
  /\ lines1 \in SeqsUpTo(LineSet, MaxEqLen)
  /\ lines2 \in SeqsUpTo(LineSet, MaxEqLen)
  /\ flag_context_lines = 0
  /\ flag_cmp_ignore_blank_lines \in BOOLEAN
  /\ flag_cmp_ignore_case \in BOOLEAN
  /\ NoSpaceFlags /\ NoCompare /\ NoFile /\ NoJobs /\ NoShift /\ NoSms
  /\ hashf \in {h \in [LineSet -> HashValues] : Agrees(h, Cfg)}
  /\ info1 = NoInfo /\ info2 = NoInfo
  /\ data1 = <<>> /\ data2 = <<>>
  /\ zchange1 = <<>> /\ zchange2 = <<>> /\ ndiff = 0
  /\ i1 = 0 /\ i2 = 0 /\ ops = <<>> /\ changed = FALSE
  /\ hunks = <<>>

NextEquiv == FindEquivLines

SpecEquiv == InitEquiv /\ [][NextEquiv]_vars

\* ------------------------------------------------------------------------
\* do_diff step by step: the cells of v that algorithm_sms reads and writes
\* ------------------------------------------------------------------------
\* the items of the slices
SmsIds == {1, 2}

\* make([]int, size) in place of make([]int, size*2)
v_len_single(n1, n2) == (n1 + n2 + 1) * 2 + 2

\* length of the slice v that do_diff makes for slices of n1 and n2 items
v_len(n1, n2) == ((n1 + n2 + 1) * 2 + 2) * 2

\* an algorithm_lcs call on data1[lo1:hi1] and data2[lo2:hi2], level calls deep
LcsCall(lo1, hi1, lo2, hi2, level) ==
  [lo1 |-> lo1, hi1 |-> hi1, lo2 |-> lo2, hi2 |-> hi2, level |-> level]

\* the n-th algorithm_sms call, made by the algorithm_lcs call c, in the loop
\* for d, at diagonal k
SmsCall(c, n, d, k, z) ==
  [lo1 |-> c.lo1, hi1 |-> c.hi1, lo2 |-> c.lo2, hi2 |-> c.hi2, level |-> c.level,
   n |-> n, d |-> d, k |-> k, z |-> z]

\* the arguments and the constants of the running algorithm_sms
sms_data1 == Slice(data1, sms_call.lo1, sms_call.hi1)
sms_data2 == Slice(data2, sms_call.lo2, sms_call.hi2)
sms_end1 == sms_call.hi1 - sms_call.lo1
sms_end2 == sms_call.hi2 - sms_call.lo2
sms_max == sms_end1 + sms_end2 + 1
sms_up_k == sms_end1 - sms_end2
sms_odd == (sms_up_k % 2) # 0
sms_down_off == sms_max
sms_up_off == sms_max - sms_up_k + sms_max + sms_max + 2

\* v[i] is inside the slice
InV(i) == i \in DOMAIN v_vec

\* the mark of a cell of v that holds whatever the caller has left in it
Unwritten == -100

\* the values such a cell may hold: below, among and above the values of x
ArbitraryValues == (-2)..(MaxSmsLen + 2)

\* what a read of v[i] may give
Stored(i) ==
  IF ~InV(i) THEN {0}
  ELSE IF v_vec[i] = Unwritten THEN ArbitraryValues
  ELSE {v_vec[i]}

\* the test of the forward half without its lower limit for k
sms_meet_down_open(k, d) == sms_odd /\ (k < sms_up_k + d)

\* the forward half looks at the cell of the reverse half on diagonal k
sms_meet_down(k, d) == sms_odd /\ (sms_up_k - d < k) /\ (k < sms_up_k + d)

\* the cell v[off + i] as the running call addresses it: half is "down" for
\* down_off and "up" for up_off
Cell(half, i) ==
  [call |-> sms_call.n, level |-> sms_call.level, half |-> half, index |-> i]

\* an index out of range: the program stops
Panic(cells) ==
  /\ pc' = "panic"
  /\ v_use' = v_use \cup cells
  /\ UNCHANGED <<v_vec, lcs_stack, sms_call>>

\* the algorithm_lcs calls that follow the snake <<x0, y0>> .. <<x1, y1>> of
\* the call c
SubCalls(c, x0, y0, x1, y1) ==
  <<LcsCall(c.lo1, c.lo1 + x0, c.lo2, c.lo2 + y0, c.level + 1),
    LcsCall(c.lo1 + x1, c.hi1, c.lo2 + y1, c.hi2, c.level + 1)>>

\* algorithm_sms returns x0, y0, x1, y1 after it has addressed cells
SmsReturn(cells, x0, y0, x1, y1) ==
  /\ v_use' = v_use \cup cells
  /\ lcs_stack' = SubCalls(sms_call, x0, y0, x1, y1) \o lcs_stack
  /\ sms_call' = NoSmsCall
  /\ pc' = "lcs"
  /\ UNCHANGED v_vec

\* s with the entries lo..hi-1 (0-based) set to true
MarkChanged(s, lo, hi) == [i \in 1..Len(s) |-> s[i] \/ (lo < i /\ i <= hi)]

sms_rest == <<lines1, lines2, hashf, comparev, filev, jobv, shiftv, flags,
              info1, info2, reportv, ndiff, data1, data2>>

\* any two slices of at most MaxSmsLen items
InitSms ==
  /\ pc = "do_diff"
  /\ data1 \in SeqsUpTo(SmsIds, MaxSmsLen)
  /\ data2 \in SeqsUpTo(SmsIds, MaxSmsLen)
  /\ zchange1 = <<>> /\ zchange2 = <<>> /\ ndiff = 0
  /\ info1 = NoInfo /\ info2 = NoInfo
  /\ i1 = 0 /\ i2 = 0 /\ ops = <<>> /\ changed = FALSE
  /\ hunks = <<>>
  /\ lines1 = <<>> /\ lines2 = <<>> /\ hashf = <<>>
  /\ flag_context_lines = 0
  /\ flag_cmp_ignore_blank_lines = FALSE
  /\ flag_cmp_ignore_case = FALSE
  /\ NoSpaceFlags /\ NoCompare /\ NoFile /\ NoJobs /\ NoShift /\ NoSms

\* do_diff up to the call of algorithm_lcs
DoDiffEnter ==
  /\ pc = "do_diff"
  /\ zchange1' = MakeBools(Len(data1))
  /\ zchange2' = MakeBools(Len(data2))
  /\ v_vec' = [i \in 0..(v_len(Len(data1), Len(data2)) - 1) |-> 0]
  /\ lcs_stack' = <<LcsCall(0, Len(data1), 0, Len(data2), 1)>>
  /\ pc' = "lcs"
  /\ UNCHANGED <<v_use, sms_call, sms_rest>>

\* algorithm_lcs returns: the next call still to be made, or the end
LcsReturn(rest) ==
  /\ lcs_stack' = rest
  /\ pc' = IF rest = <<>> THEN "done" ELSE "lcs"
  /\ UNCHANGED <<v_use, v_vec, sms_call>>

\* algorithm_lcs up to its recursive calls or up to the algorithm_sms call
AlgorithmLcs ==
  /\ pc = "lcs"
  /\ LET c == Head(lcs_stack)
         s == lcs_head(Slice(data1, c.lo1, c.hi1), Slice(data2, c.lo2, c.hi2), 0)
         t == lcs_tail(Slice(data1, c.lo1, c.hi1), Slice(data2, c.lo2, c.hi2), s, 0)
         start1 == c.lo1 + s
         start2 == c.lo2 + s
         end1 == c.hi1 - t
         end2 == c.hi2 - t
         n1 == end1 - start1
         n2 == end2 - start2
         w == LcsCall(start1, end1, start2, end2, c.level)
         one1 == find_one_sms(data1[start1 + 1], Slice(data2, start2, end2))
         one2 == find_one_sms(data2[start2 + 1], Slice(data1, start1, end1))
     IN IF n1 = 0
        THEN /\ zchange2' = MarkChanged(zchange2, start2, end2)
             /\ LcsReturn(Tail(lcs_stack))
             /\ UNCHANGED zchange1
        ELSE IF n2 = 0
        THEN /\ zchange1' = MarkChanged(zchange1, start1, end1)
             /\ LcsReturn(Tail(lcs_stack))
             /\ UNCHANGED zchange2
        ELSE IF n1 = 1 /\ n2 = 1
        THEN /\ zchange1' = MarkChanged(zchange1, start1, end1)
             /\ zchange2' = MarkChanged(zchange2, start2, end2)
             /\ LcsReturn(Tail(lcs_stack))
        ELSE IF n1 = 1
        THEN /\ LcsReturn(SubCalls(w, one1[1], one1[2], one1[1], one1[2])
                            \o Tail(lcs_stack))
             /\ UNCHANGED <<zchange1, zchange2>>
        ELSE IF n2 = 1
        THEN /\ LcsReturn(SubCalls(w, one2[2], one2[1], one2[2], one2[1])
                            \o Tail(lcs_stack))
             /\ UNCHANGED <<zchange1, zchange2>>
        ELSE /\ sms_call' = SmsCall(w, Cardinality({a.call : a \in v_use}) + 1, 1, -1, 0)
             /\ lcs_stack' = Tail(lcs_stack)
             /\ pc' = "sms"
             /\ UNCHANGED <<v_use, v_vec, zchange1, zchange2>>
  /\ UNCHANGED sms_rest

\* algorithm_sms up to the loop for d: the four cells set at the start
SmsEnter ==
  /\ pc = "sms"
  /\ LET i1d == sms_down_off + 1
         i2d == sms_down_off
         i1u == sms_up_off + sms_up_k - 1
         i2u == sms_up_off + sms_up_k
     IN IF ~InV(i1d) THEN Panic({Cell("down", i1d)})
        ELSE IF ~InV(i2d) THEN Panic({Cell("down", i1d), Cell("down", i2d)})
        ELSE IF ~InV(i1u)
        THEN Panic({Cell("down", i1d), Cell("down", i2d), Cell("up", i1u)})
        ELSE IF ~InV(i2u)
        THEN Panic({Cell("down", i1d), Cell("down", i2d), Cell("up", i1u),
                    Cell("up", i2u)})
        ELSE /\ v_vec' = [v_vec EXCEPT ![i1d] = 0, ![i2d] = 0,
                                       ![i1u] = sms_end1, ![i2u] = sms_end1]
             /\ v_use' = v_use \cup {Cell("down", i1d), Cell("down", i2d),
                                     Cell("up", i1u), Cell("up", i2u)}
             /\ pc' = "sms_down"
             /\ UNCHANGED <<lcs_stack, sms_call>>
  /\ UNCHANGED <<zchange1, zchange2, sms_rest>>

\* one turn of the loop for k of the forward half
SmsDown ==
  /\ pc = "sms_down"
  /\ \E vr \in Stored(sms_down_off + sms_call.k + 1) :
     \E vu \in (IF sms_meet_down(sms_call.k, sms_call.d)
                THEN Stored(sms_up_off + sms_call.k) ELSE {0}) :
     LET d == sms_call.d
         k == sms_call.k
         z == sms_call.z
         ir == sms_down_off + k + 1
         iu == sms_up_off + k
         iw == sms_down_off + k
         x0 == IF k > -d /\ (k = d \/ z >= vr) THEN z + 1 ELSE vr
         x == snake_down(sms_data1, sms_data2, x0, k)
         u == x0
         meet == sms_meet_down(k, d)
         read == {Cell("down", ir)} \cup (IF meet THEN {Cell("up", iu)} ELSE {})
     IN IF ~InV(ir) THEN Panic({Cell("down", ir)})
        ELSE IF meet /\ ~InV(iu) THEN Panic(read)
        ELSE IF meet /\ vu <= x THEN SmsReturn(read, u, u - k, x, x - k)
        ELSE IF ~InV(iw) THEN Panic(read \cup {Cell("down", iw)})
        ELSE /\ v_vec' = [v_vec EXCEPT ![iw] = x]
             /\ v_use' = v_use \cup read \cup {Cell("down", iw)}
             /\ sms_call' = [sms_call EXCEPT !.k = k + 2, !.z = vr]
             /\ pc' = IF k + 2 <= d THEN "sms_down" ELSE "sms_turn"
             /\ UNCHANGED lcs_stack
  /\ UNCHANGED <<zchange1, zchange2, sms_rest>>

\* between the two halves: z = v[up_off+up_k_minus_d-1]
SmsTurn ==
  /\ pc = "sms_turn"
  /\ \E vz \in Stored(sms_up_off + sms_up_k - sms_call.d - 1) :
     LET iz == sms_up_off + sms_up_k - sms_call.d - 1
     IN IF ~InV(iz) THEN Panic({Cell("up", iz)})
        ELSE /\ sms_call' = [sms_call EXCEPT !.k = sms_up_k - sms_call.d,
                                             !.z = vz]
             /\ v_use' = v_use \cup {Cell("up", iz)}
             /\ pc' = "sms_up"
             /\ UNCHANGED <<v_vec, lcs_stack>>
  /\ UNCHANGED <<zchange1, zchange2, sms_rest>>

\* one turn of the loop for k of the reverse half
SmsUp ==
  /\ pc = "sms_up"
  /\ \E vr \in (IF sms_call.k < sms_up_k + sms_call.d
                THEN Stored(sms_up_off + sms_call.k + 1) ELSE {0}) :
     \E vd \in (IF (~sms_odd) /\ (-sms_call.d <= sms_call.k)
                   /\ (sms_call.k <= sms_call.d)
                THEN Stored(sms_down_off + sms_call.k) ELSE {0}) :
     LET d == sms_call.d
         k == sms_call.k
         inner == k < sms_up_k + d
         ir == sms_up_off + k + 1
         id == sms_down_off + k
         iw == sms_up_off + k
         z == IF inner THEN vr ELSE sms_call.z
         x0 == IF inner /\ (k = sms_up_k - d \/ z <= sms_call.z) THEN z - 1
               ELSE sms_call.z
         x == snake_up(sms_data1, sms_data2, x0, k)
         u == x0
         meet == (~sms_odd) /\ (-d <= k) /\ (k <= d)
         read == (IF inner THEN {Cell("up", ir)} ELSE {})
                   \cup (IF meet THEN {Cell("down", id)} ELSE {})
     IN IF inner /\ ~InV(ir) THEN Panic({Cell("up", ir)})
        ELSE IF meet /\ ~InV(id) THEN Panic(read)
        ELSE IF meet /\ x <= vd THEN SmsReturn(read, x, x - k, u, u - k)
        ELSE IF ~InV(iw) THEN Panic(read \cup {Cell("up", iw)})
        ELSE /\ v_vec' = [v_vec EXCEPT ![iw] = x]
             /\ v_use' = v_use \cup read \cup {Cell("up", iw)}
             /\ sms_call' = IF k + 2 <= sms_up_k + d
                            THEN [sms_call EXCEPT !.k = k + 2, !.z = z]
                            ELSE [sms_call EXCEPT !.d = d + 1, !.k = -(d + 1), !.z = z]
             /\ pc' = IF k + 2 <= sms_up_k + d THEN "sms_up" ELSE "sms_down"
             /\ UNCHANGED lcs_stack
  /\ UNCHANGED <<zchange1, zchange2, sms_rest>>

NextSms == DoDiffEnter \/ AlgorithmLcs \/ SmsEnter \/ SmsDown \/ SmsTurn \/ SmsUp

SpecSms == InitSms /\ [][NextSms]_vars

\* the scheduler runs do_diff on: no step of it waits for anything
FairSms == SpecSms /\ WF_vars(NextSms)

\* algorithm_sms up to the loop for d, called with a v of any contents: the
\* four cells it sets, every other cell as the caller has left it
SmsEnterAny ==
  /\ pc = "sms"
  /\ InV(sms_down_off + 1) /\ InV(sms_down_off)
  /\ InV(sms_up_off + sms_up_k - 1) /\ InV(sms_up_off + sms_up_k)
  /\ v_vec' = [[i \in DOMAIN v_vec |-> Unwritten]
                 EXCEPT ![sms_down_off + 1] = 0,
                        ![sms_down_off] = 0,
                        ![sms_up_off + sms_up_k - 1] = sms_end1,
                        ![sms_up_off + sms_up_k] = sms_end1]
  /\ v_use' = v_use \cup {Cell("down", sms_down_off + 1), Cell("down", sms_down_off),
                          Cell("up", sms_up_off + sms_up_k - 1),
                          Cell("up", sms_up_off + sms_up_k)}
  /\ pc' = "sms_down"
  /\ UNCHANGED <<lcs_stack, sms_call, zchange1, zchange2, sms_rest>>

NextSmsAny ==
  DoDiffEnter \/ AlgorithmLcs \/ SmsEnterAny \/ SmsDown \/ SmsTurn \/ SmsUp

\* do_diff with every algorithm_sms call started on a v of any contents
SpecSmsAny == InitSms /\ [][NextSmsAny]_vars

\* ------------------------------------------------------------------------
\* shift_boundaries step by step
\* ------------------------------------------------------------------------
\* the locals of shift_boundaries: the bitmap as it is now, the position of
\* the scan, the do_shift_boundary call under way (its start, end and offset,
\* and the start the scan takes up after it; up is the distance of an
\* up-merge, 0 otherwise), and the cases of the switch taken in the last
\* three turns
Scan(change, start, lo, hi, offset, next, up, case) ==
  [change |-> change, start |-> start, lo |-> lo, hi |-> hi, offset |-> offset,
   next |-> next, up |-> up, case |-> case]

\* data of at most MaxScanLen items with any change bitmap of its length and
\* no score function or any score function of values up to MaxScore
InitScan ==
  /\ pc = "scan"
  /\ \E data \in SeqsUpTo(ShiftIds, MaxScanLen) :
     \E change \in [1..Len(data) -> BOOLEAN] :
     \E score \in {NoScore} \cup [ShiftIds \X ShiftIds -> 0..MaxScore] :
       /\ shift_call = ShiftArgs(data, change, score)
       /\ scan = Scan(change, 0, 0, 0, 0, 0, 0, <<>>)
  /\ shift_out = <<>>
  /\ lines1 = <<>> /\ lines2 = <<>> /\ hashf = <<>>
  /\ flag_context_lines = 0
  /\ flag_cmp_ignore_blank_lines = FALSE
  /\ flag_cmp_ignore_case = FALSE
  /\ NoSpaceFlags /\ NoCompare /\ NoFile /\ NoDiffFile /\ NoJobs /\ NoSms

scan_rest == <<lines1, lines2, hashf, comparev, filev, jobv, smsv, flags,
               info1, info2, diffv, reportv>>

\* the scan goes on at position start after a do_shift_boundary call that
\* has left change; after an up-merge by up it restarts where the merged
\* chunk begins, unless that is position 0
ScanOn(change, start, up, case) ==
  IF up > 0 /\ run_start(start - up, change) > 0
  THEN Scan(change, run_start(start - up, change), 0, 0, 0, 0, 0, case)
  ELSE Scan(change, start, 0, 0, 0, 0, 0, case)

\* the cases of the last three turns, the turn that takes case c included
LastCases(case, c) ==
  IF Len(case) < 3 THEN Append(case, c) ELSE Append(Tail(case), c)

\* one turn of the loop of shift_boundaries, up to the do_shift_boundary
\* call if there is one
ScanChunk ==
  /\ pc = "scan"
  /\ LET data == shift_call.data
         score == shift_call.boundary_score
         change == scan.change
         clen == Len(change)
         start == next_change(scan.start, change)
         fb == find_shift_boundary(start, data, change)
         end == fb.end
         up == IF start = 0 THEN 0 ELSE fb.up
         down == IF start = 0 THEN 0 ELSE fb.down
         offset == best_offset(-up, down, start, end, data, score, 0,
                               score[<<data[start + 1], data[end]>>])
     IN IF scan.start >= clen \/ start >= clen
        THEN /\ shift_out' = <<change>>
             /\ pc' = "scanned"
             /\ UNCHANGED scan
        ELSE /\ scan' =
                  IF up > 0 /\ fb.up_merge
                  THEN Scan(change, start, start, end, -up, start, up,
                            LastCases(scan.case, "up_merge"))
                  ELSE IF down > 0 /\ fb.down_merge
                  THEN Scan(change, start, start, end, down, start + down, 0,
                            LastCases(scan.case, "down_merge"))
                  ELSE IF (up > 0 \/ down > 0) /\ score # NoScore /\ offset # 0
                  THEN Scan(change, start, start, end, offset,
                            IF offset > 0 THEN end + offset ELSE end, 0,
                            LastCases(scan.case, "score"))
                  ELSE Scan(change, end, 0, 0, 0, 0, 0, LastCases(scan.case, "default"))
             /\ pc' = IF scan'.offset # 0 THEN "shift" ELSE "scan"
             /\ UNCHANGED shift_out
  /\ UNCHANGED <<shift_call, scan_rest>>

\* one turn of the loop of do_shift_boundary, and what follows the call in
\* shift_boundaries when the loop ends
ShiftStep ==
  /\ pc = "shift"
  /\ LET step == IF scan.offset < 0 THEN -1 ELSE 1
         moved == do_shift_boundary(scan.lo, scan.hi, step, scan.change)
     IN IF scan.offset = step
        THEN /\ scan' = ScanOn(moved, scan.next, scan.up, scan.case)
             /\ pc' = "scan"
        ELSE /\ scan' = [scan EXCEPT !.change = moved, !.lo = scan.lo + step,
                                     !.hi = scan.hi + step,
                                     !.offset = scan.offset - step]
             /\ pc' = "shift"
  /\ UNCHANGED <<shift_call, shift_out, scan_rest>>

NextScan == ScanChunk \/ ShiftStep

SpecScan == InitScan /\ [][NextScan]_vars

\* the scheduler runs shift_boundaries on: no step of it waits for anything
FairScan == SpecScan /\ WF_vars(NextScan)

\* ------------------------------------------------------------------------
\* find_equiv_lines alone, on files that have lines of their own
\* ------------------------------------------------------------------------
\* the lines of file 1: "", "a", and "x", which file 2 does not have
CompressLines1 == {<<>>, <<97>>, <<120>>}

\* the lines of file 2: "", "a", and "y", which file 1 does not have
CompressLines2 == {<<>>, <<97>>, <<121>>}

\* two files of at most MaxZLen lines, -B on or off
InitCompress ==
  /\ lines1 \in SeqsUpTo(CompressLines1, MaxZLen)
  /\ lines2 \in SeqsUpTo(CompressLines2, MaxZLen)
  /\ flag_context_lines = 0
  /\ flag_cmp_ignore_blank_lines \in BOOLEAN
  /\ flag_cmp_ignore_case = FALSE
  /\ InitRest

NextCompress == FindEquivLines

SpecCompress == InitCompress /\ [][NextCompress]_vars

\* ------------------------------------------------------------------------
\* Vocabulary of the properties
\* ------------------------------------------------------------------------
\* the items of s at the positions change leaves unmarked, in order
RECURSIVE Unmarked(_, _)
Unmarked(s, change) ==
  IF s = <<>> THEN <<>>
  ELSE (IF change[1] THEN <<>> ELSE <<s[1]>>) \o Unmarked(Tail(s), Tail(change))

\* number of true entries of a bitmap
CountTrue(change) == Cardinality({i \in 1..Len(change) : change[i]})

\* length of a longest common subsequence of a and b, items compared by eq
LCSLen(a, b, eq(_, _)) ==
  LET L[i \in 0..Len(a), j \in 0..Len(b)] ==
        IF i = 0 \/ j = 0 THEN 0
        ELSE IF eq(a[i], b[j]) THEN L[i - 1, j - 1] + 1
        ELSE MaxInt(L[i - 1, j], L[i, j - 1])
  IN L[Len(a), Len(b)]

SameItem(a, b) == a = b

\* lines compared as the comparator in use compares them
SameLine(a, b) == compare_line(Cfg, a, b)

\* the pipeline has produced the final change bitmaps of the two files
Compared == pc \in {"report", "done"}

\* the exact configuration: no comparison flag is set
ExactConfig ==
  /\ ~flag_cmp_ignore_case /\ ~flag_cmp_ignore_blank_lines
  /\ ~flag_cmp_ignore_space_change /\ ~flag_cmp_ignore_all_space

\* an op that reports a change
IsChange(o) == o.op # DIFF_OP_SAME

\* number of lines of op o on side 1, on side 2
Size1(o) == o.end1 - o.start1
Size2(o) == o.end2 - o.start2

\* the ops of the hunks hs from hunk k on, in the order of their delivery,
\* each with the number of its hunk
RECURSIVE Delivered(_, _)
Delivered(hs, k) ==
  IF k > Len(hs) THEN <<>>
  ELSE [n \in 1..Len(hs[k]) |-> [hunk |-> k, op |-> hs[k][n]]] \o Delivered(hs, k + 1)

IsDeliveredChange(t) == IsChange(t.op)

\* the non-SAME ops passed to diff_lines, in order, with their hunk numbers
DeliveredChanges == SelectSeq(Delivered(hunks, 1), IsDeliveredChange)

\* the non-SAME ops of a hunk
Changes(hunk) == SelectSeq(hunk, IsChange)

\* ------------------------------------------------------------------------
\* C1: do_diff(X, Y) returns bitmaps of the lengths of X and Y; the unmarked
\* items of X, in order, are the unmarked items of Y, in order, and they are
\* as many as a longest common subsequence of X and Y has.
\* ------------------------------------------------------------------------
C1_DoDiffIsLCS ==
  pc = "diff_done" =>
    /\ Len(zchange1) = Len(data1)
    /\ Len(zchange2) = Len(data2)
    /\ Unmarked(data1, zchange1) = Unmarked(data2, zchange2)
    /\ Len(Unmarked(data1, zchange1)) = LCSLen(data1, data2, SameItem)

\* a call that had to search for a middle snake: nothing to trim at either
\* end, two or more items on each side, and a common subsequence of two items
C1_Witness ==
  /\ pc = "diff_done"
  /\ Len(data1) >= 3 /\ Len(data2) >= 3
  /\ data1[1] # data2[1]
  /\ data1[Len(data1)] # data2[Len(data2)]
  /\ Len(Unmarked(data1, zchange1)) >= 2
  /\ CountTrue(zchange1) >= 1 /\ CountTrue(zchange2) >= 1

\* ------------------------------------------------------------------------
\* C2: under the exact comparator, after the whole pipeline the lines of A
\* that are not marked changed are, in order and one for one, the lines of B
\* that are not marked changed.
\* ------------------------------------------------------------------------
C2_UnchangedLinesAgree ==
  (Compared /\ ~flag_cmp_ignore_case) =>
    /\ Len(change1) = Len(lines1)
    /\ Len(change2) = Len(lines2)
    /\ Unmarked(lines1, change1) = Unmarked(lines2, change2)

\* the diff engine ran, lines are kept and lines are changed on both sides
C2_Witness ==
  /\ pc = "done" /\ ~flag_cmp_ignore_case
  /\ ndiff = 1
  /\ Len(Unmarked(lines1, change1)) >= 2
  /\ CountTrue(change1) >= 1 /\ CountTrue(change2) >= 1

\* ------------------------------------------------------------------------
\* C3: after the whole pipeline the number of lines marked changed on the two
\* sides is |A| + |B| - 2 * LCS(A, B), the LCS taken under the comparator in
\* use.
\* ------------------------------------------------------------------------
C3_MinimalChange ==
  Compared =>
    CountTrue(change1) + CountTrue(change2)
      = Len(lines1) + Len(lines2) - 2 * LCSLen(lines1, lines2, SameLine)

\* the compressor has collapsed a run of lines that only one side has, the
\* diff engine ran and some line is kept
C3_Witness ==
  /\ pc = "done"
  /\ ndiff = 1
  /\ \E i \in 1..Len(info1.zcount) : info1.zcount[i] >= 2
  /\ LCSLen(lines1, lines2, SameLine) >= 1

\* ------------------------------------------------------------------------
\* C4: within every hunk passed to diff_lines, each op starts, on both sides,
\* where the op before it ends; so the unchanged lines between two changes of
\* one hunk are all in the SAME op between them.  The claim is for every
\* configuration; it is stated here for the exact configuration, where no
\* blank line is trimmed from a change, and it fails there already.
\* ------------------------------------------------------------------------
C4_HunkContiguous ==
  ExactConfig =>
    \A h \in 1..Len(hunks) : \A k \in 1..(Len(hunks[h]) - 1) :
      /\ hunks[h][k + 1].start1 = hunks[h][k].end1
      /\ hunks[h][k + 1].start2 = hunks[h][k].end2

\* ------------------------------------------------------------------------
\* C5: two non-SAME ops p and q that follow one another are in different
\* hunks if and only if q starts more than 2 * context_lines lines after the
\* end of p on both sides.
\* ------------------------------------------------------------------------
C5_SplitIffGapOverTwiceContext ==
  pc = "done" =>
    \A n \in 1..(Len(DeliveredChanges) - 1) :
      LET p == DeliveredChanges[n].op
          q == DeliveredChanges[n + 1].op
      IN (DeliveredChanges[n].hunk # DeliveredChanges[n + 1].hunk)
           <=> (/\ q.start1 - p.end1 > 2 * flag_context_lines
                /\ q.start2 - p.end2 > 2 * flag_context_lines)

\* with context, two changes far enough apart to be delivered in two hunks
C5_Witness ==
  /\ pc = "done" /\ flag_context_lines >= 1
  /\ Len(DeliveredChanges) = 2
  /\ DeliveredChanges[1].hunk # DeliveredChanges[2].hunk
  /\ DeliveredChanges[2].op.start1 - DeliveredChanges[1].op.end1
       > 2 * flag_context_lines

\* ------------------------------------------------------------------------
\* C6: in the exact configuration with context_lines = c, a hunk starts with
\* a SAME op of min(c, g) lines, g the number of lines between the last
\* change of the hunk before (or the start of the files) and the first change
\* of the hunk, and there is no such op when min(c, g) = 0; it ends with a
\* SAME op of min(c, g') lines, g' the number of lines between its last
\* change and the first change of the next hunk (or the end of the files),
\* and there is no such op when min(c, g') = 0; and a hunk starts, on both
\* sides, at or after the end of the hunk before.
\* ------------------------------------------------------------------------
\* hunk k of the hunks delivered has m lines of leading context, the ops
\* before its first change being exactly those
LeadingContext(k, m) ==
  LET hunk == hunks[k]
      first == Changes(hunk)[1]
  IN IF m = 0 THEN hunk[1] = first
     ELSE /\ hunk[1] = DiffOp(DIFF_OP_SAME, first.start1 - m, first.start1,
                              first.start2 - m, first.start2)
          /\ Len(hunk) >= 2 /\ hunk[2] = first

TrailingContext(k, m) ==
  LET hunk == hunks[k]
      last == Changes(hunk)[Len(Changes(hunk))]
  IN IF m = 0 THEN hunk[Len(hunk)] = last
     ELSE /\ hunk[Len(hunk)] = DiffOp(DIFF_OP_SAME, last.end1, last.end1 + m,
                                      last.end2, last.end2 + m)
          /\ Len(hunk) >= 2 /\ hunk[Len(hunk) - 1] = last

C6_ContextOfHunks ==
  (pc = "done" /\ ExactConfig) =>
    \A k \in 1..Len(hunks) :
      LET hunk == hunks[k]
          chg == Changes(hunk)
          before == IF k = 1 THEN DiffOp(0, 0, 0, 0, 0)
                    ELSE Changes(hunks[k - 1])[Len(Changes(hunks[k - 1]))]
          after == IF k = Len(hunks)
                   THEN DiffOp(0, Len(lines1), Len(lines1), Len(lines2), Len(lines2))
                   ELSE Changes(hunks[k + 1])[1]
      IN /\ Len(chg) >= 1
         /\ chg[1].start1 - before.end1 = chg[1].start2 - before.end2
         /\ LeadingContext(k, MinInt(flag_context_lines, chg[1].start1 - before.end1))
         /\ after.start1 - chg[Len(chg)].end1 = after.start2 - chg[Len(chg)].end2
         /\ TrailingContext(k, MinInt(flag_context_lines,
                                      after.start1 - chg[Len(chg)].end1))
         /\ k > 1 => /\ hunks[k - 1][Len(hunks[k - 1])].end1 <= hunk[1].start1
                     /\ hunks[k - 1][Len(hunks[k - 1])].end2 <= hunk[1].start2

\* two hunks with context: the first starts with its change, at the start of
\* the files, and ends with a SAME op; the second starts with a SAME op
C6_Witness ==
  /\ pc = "done" /\ ExactConfig /\ flag_context_lines >= 1
  /\ Len(hunks) = 2
  /\ IsChange(hunks[1][1])
  /\ ~IsChange(hunks[1][Len(hunks[1])])
  /\ ~IsChange(hunks[2][1])

\* ------------------------------------------------------------------------
\* C7: in every hunk, whatever the flags, a SAME op with a non-SAME op before
\* it and a non-SAME op after it has at most 2 * context_lines lines on each
\* side.
\* ------------------------------------------------------------------------
C7_InnerSameAtMostTwiceContext ==
  \A h \in 1..Len(hunks) : \A k \in 1..Len(hunks[h]) :
    (/\ ~IsChange(hunks[h][k])
     /\ \E a \in 1..(k - 1) : IsChange(hunks[h][a])
     /\ \E b \in (k + 1)..Len(hunks[h]) : IsChange(hunks[h][b]))
    => /\ Size1(hunks[h][k]) <= 2 * flag_context_lines
       /\ Size2(hunks[h][k]) <= 2 * flag_context_lines

\* blank lines are ignored and a hunk holds a SAME op between two changes
\* that are more than 2 * context_lines lines apart on side 1
C7_Witness ==
  /\ pc = "done" /\ flag_cmp_ignore_blank_lines
  /\ \E h \in 1..Len(hunks) : \E k \in 2..(Len(hunks[h]) - 1) :
       /\ ~IsChange(hunks[h][k])
       /\ IsChange(hunks[h][k - 1]) /\ IsChange(hunks[h][k + 1])
       /\ hunks[h][k + 1].start1 - hunks[h][k - 1].end1 > 2 * flag_context_lines

\* ------------------------------------------------------------------------
\* C8: with ignore_blank_lines, every non-SAME op handed on by report_diff
\* holds a line whose id is not 0, and on each side it is empty or starts and
\* ends with such a line; a run of changed lines that all have id 0 is in no
\* op; and when every changed line of both sides has id 0, no op is handed on
\* and report_diff returns false.
\* ------------------------------------------------------------------------
\* the lines start..end-1 (0-based) of ids are none, or the first and the
\* last of them are not blank
TrimmedSide(ids, start, end) ==
  start = end \/ (start < end /\ ids[start + 1] # 0 /\ ids[end] # 0)

\* the changed lines of ids from lo to hi-1 (0-based) are a whole run of
\* changes, and all of them are blank
BlankRun(ids, change, lo, hi) ==
  /\ lo < hi
  /\ \A i \in (lo + 1)..hi : change[i] /\ ids[i] = 0
  /\ lo = 0 \/ ~change[lo]
  /\ hi = Len(change) \/ ~change[hi + 1]

\* every changed line is a blank line
OnlyBlankChanges(ids, change) == \A i \in 1..Len(change) : change[i] => ids[i] = 0

\* the ops handed on so far: those of the hunks, then those still in ops
Emitted == Delivered(hunks \o <<ops>>, 1)

C8_BlankChangesNotReported ==
  (Compared /\ flag_cmp_ignore_blank_lines) =>
    /\ \A n \in 1..Len(Emitted) :
         LET o == Emitted[n].op
         IN IsChange(o) =>
              /\ Size1(o) + Size2(o) >= 1
              /\ TrimmedSide(info1.ids, o.start1, o.end1)
              /\ TrimmedSide(info2.ids, o.start2, o.end2)
              /\ \A lo \in 0..len1 : \A hi \in lo..len1 :
                   BlankRun(info1.ids, change1, lo, hi)
                     => (o.end1 <= lo \/ hi <= o.start1)
              /\ \A lo \in 0..len2 : \A hi \in lo..len2 :
                   BlankRun(info2.ids, change2, lo, hi)
                     => (o.end2 <= lo \/ hi <= o.start2)
    /\ (OnlyBlankChanges(info1.ids, change1) /\ OnlyBlankChanges(info2.ids, change2))
         => (ops = <<>> /\ hunks = <<>> /\ ~changed)

\* blank lines are ignored; a blank line is changed next to a line that is
\* not blank, and the op that reports the change leaves the blank line out
C8_Witness ==
  /\ pc = "done" /\ flag_cmp_ignore_blank_lines
  /\ \E n \in 1..Len(Emitted) :
       LET o == Emitted[n].op
       IN /\ IsChange(o)
          /\ o.end1 < len1 /\ change1[o.end1 + 1] /\ info1.ids[o.end1 + 1] = 0
          /\ Size1(o) >= 1

\* ------------------------------------------------------------------------
\* C9: when A and B are equal line for line under the comparator in use, no
\* line of either side is marked changed, nothing is passed to diff_lines and
\* report_diff returns false; and report_diff returns true exactly when it
\* has passed an op to diff_lines.
\* ------------------------------------------------------------------------
EqualFiles ==
  /\ Len(lines1) = Len(lines2)
  /\ \A i \in 1..Len(lines1) : SameLine(lines1[i], lines2[i])

C9_EqualFilesNoChange ==
  /\ EqualFiles => hunks = <<>> /\ ops = <<>> /\ ~changed
  /\ (EqualFiles /\ Compared) => CountTrue(change1) = 0 /\ CountTrue(change2) = 0
  /\ pc = "done" => (changed <=> hunks # <<>>)

\* two files of two lines or more that differ in case only, compared with
\* ignore_case, and the comparison is over
C9_Witness ==
  /\ pc = "done" /\ flag_cmp_ignore_case
  /\ EqualFiles /\ lines1 # lines2 /\ Len(lines1) >= 2

\* ------------------------------------------------------------------------
\* C10: in the exact configuration, when A is empty and B has n >= 1 lines,
\* diff_lines gets one hunk, the single op INSERT(0, 0, 0, n), report_diff
\* returns true and do_diff is not called; when B is empty and A has n >= 1
\* lines the single op is REMOVE(0, n, 0, 0).
\* ------------------------------------------------------------------------
C10_OneSideEmpty ==
  (pc = "done" /\ ExactConfig) =>
    /\ (lines1 = <<>> /\ Len(lines2) >= 1)
         => /\ hunks = <<<<DiffOp(DIFF_OP_INSERT, 0, 0, 0, Len(lines2))>>>>
            /\ changed /\ ndiff = 0
    /\ (lines2 = <<>> /\ Len(lines1) >= 1)
         => /\ hunks = <<<<DiffOp(DIFF_OP_REMOVE, 0, Len(lines1), 0, 0)>>>>
            /\ changed /\ ndiff = 0

\* A is empty, B has two lines or more, and the comparison is over
C10_Witness ==
  /\ pc = "done" /\ ExactConfig /\ flag_context_lines >= 1
  /\ lines1 = <<>> /\ Len(lines2) >= 2

\* the lines of the two files, one after the other, and their ids
AllLines == lines1 \o lines2
AllIds == info1.ids \o info2.ids

\* ------------------------------------------------------------------------
\* C11: over all the ops passed to diff_lines for the two files, in order,
\* an op starts on each side at or after the end of the op before it, and
\* after its start on at least one side; no op ends before it starts.
\* ------------------------------------------------------------------------
C11_OpsOrdered ==
  /\ \A n \in 1..Len(Delivered(hunks, 1)) :
       LET o == Delivered(hunks, 1)[n].op
       IN o.start1 <= o.end1 /\ o.start2 <= o.end2
  /\ \A n \in 1..(Len(Delivered(hunks, 1)) - 1) :
       LET p == Delivered(hunks, 1)[n].op
           q == Delivered(hunks, 1)[n + 1].op
       IN /\ q.start1 >= p.end1 /\ q.start2 >= p.end2
          /\ q.start1 > p.start1 \/ q.start2 > p.start2

\* two hunks were delivered with context, four ops or more in all, the
\* first hunk ending and the second starting with a SAME op
C11_Witness ==
  /\ pc = "done" /\ flag_context_lines >= 1
  /\ Len(hunks) >= 2 /\ Len(Delivered(hunks, 1)) >= 4
  /\ \E n \in 1..(Len(Delivered(hunks, 1)) - 1) :
       /\ Delivered(hunks, 1)[n].hunk # Delivered(hunks, 1)[n + 1].hunk
       /\ ~IsChange(Delivered(hunks, 1)[n].op)
       /\ ~IsChange(Delivered(hunks, 1)[n + 1].op)

\* ------------------------------------------------------------------------
\* C12: under every hash function that agrees with compare_line, two lines
\* (of the same file or of the two files) get the same id from
\* find_equiv_lines exactly when compare_line holds them equal.
\* ------------------------------------------------------------------------
C12_SameIdIffEqual ==
  pc = "classified" =>
    /\ Len(AllIds) = Len(AllLines)
    /\ \A m \in 1..Len(AllLines) : \A n \in 1..Len(AllLines) :
         (AllIds[m] = AllIds[n]) <=>
           compare_line(Cfg, AllLines[m], AllLines[n])

\* the files hold three lines unequal to each other that fall into the same
\* bucket, two of them with the same hash value, and one more line equal to
\* one of them
C12_Witness ==
  /\ pc = "classified"
  /\ \E x \in 1..Len(AllLines) : \E y \in 1..Len(AllLines) :
     \E z \in 1..Len(AllLines) : \E w \in 1..Len(AllLines) :
       /\ x < y /\ w \notin {x, y, z}
       /\ ~compare_line(Cfg, AllLines[x], AllLines[y])
       /\ ~compare_line(Cfg, AllLines[x], AllLines[z])
       /\ ~compare_line(Cfg, AllLines[y], AllLines[z])
       /\ hashf[AllLines[x]] = hashf[AllLines[y]]
       /\ hashf[AllLines[z]] # hashf[AllLines[x]]
       /\ bucket_of(hashf[AllLines[z]], 512) = bucket_of(hashf[AllLines[x]], 512)
       /\ compare_line(Cfg, AllLines[w], AllLines[x])

\* ------------------------------------------------------------------------
\* C13: under every comparison configuration (exact, -i, -b, -w, with byte
\* or with Unicode rules), two lines that compare_line holds equal have the
\* same compute_hash.
\* ------------------------------------------------------------------------
C13_EqualLinesSameHash ==
  (pc = "compared" /\ cmp.equal) => cmp.hash1 = cmp.hash2

\* two lines of different bytes compare equal under -b -i with Unicode
\* rules, one of them ending in a space
C13_Witness ==
  /\ pc = "compared" /\ cmp.equal /\ line1 # line2
  /\ flag_cmp_ignore_space_change /\ ~flag_cmp_ignore_all_space
  /\ flag_cmp_ignore_case /\ flag_unicode_case_and_space
  /\ Len(line1) = Len(line2) + 1 /\ line1[Len(line1)] = 32
  /\ \E i \in 1..Len(line2) : line1[i] # line2[i]

\* the byte rules of -b alone are in force
SpaceChangeBytes ==
  /\ flag_cmp_ignore_space_change /\ ~flag_cmp_ignore_all_space
  /\ ~flag_cmp_ignore_case /\ ~flag_unicode_case_and_space

\* line without the white space at its end
RECURSIVE DropTrailing(_)
DropTrailing(line) ==
  IF line # <<>> /\ IsSpace(line[Len(line)])
  THEN DropTrailing(SubSeq(line, 1, Len(line) - 1)) ELSE line

\* line with every maximal run of white space replaced by one space
RECURSIVE Collapse(_)
Collapse(line) ==
  IF line = <<>> THEN <<>>
  ELSE IF ~IsSpace(Head(line)) THEN <<Head(line)>> \o Collapse(Tail(line))
  ELSE IF Len(line) > 1 /\ IsSpace(line[2]) THEN Collapse(Tail(line))
  ELSE <<32>> \o Collapse(Tail(line))

\* ------------------------------------------------------------------------
\* C14: under -b with byte rules and without -i, compare_line
\* holds two lines equal exactly when they are the same bytes after every
\* maximal run of white space is replaced by one space and the white space
\* at the end is dropped, white space at the start being kept as one space.
\* compare_line_bytes skips the white space at the start of both lines, so
\* " a" and "a" compare equal: the statement does not hold of it.
\* ------------------------------------------------------------------------
C14_LeadingSpaceKept ==
  (pc = "compared" /\ SpaceChangeBytes) =>
    (cmp.equal <=> Collapse(DropTrailing(line1)) = Collapse(DropTrailing(line2)))

\* the positions (1-based) where a terminator of data starts: a CR, or a LF
\* that does not follow a CR
TermStarts(data) ==
  {i \in 1..Len(data) :
     data[i] = 13 \/ (data[i] = 10 /\ (i = 1 \/ data[i - 1] # 13))}

\* the position where the terminator that starts at i ends
TermEnd(data, i) ==
  IF data[i] = 13 /\ i < Len(data) /\ data[i + 1] = 10 THEN i + 1 ELSE i

\* the start of the k-th terminator of data; 0, where the 0th ends, for k = 0
TermStart(data, k) ==
  IF k = 0 THEN 0
  ELSE CHOOSE i \in TermStarts(data) :
         Cardinality({j \in TermStarts(data) : j < i}) = k - 1

\* the segments of data that its terminators end, in order, and the segment
\* after the last terminator when it is not empty
Segments(data) ==
  LET n == Cardinality(TermStarts(data))
      seg(k) == SubSeq(data,
                       IF k = 1 THEN 1 ELSE TermEnd(data, TermStart(data, k - 1)) + 1,
                       TermStart(data, k) - 1)
      last == IF n = 0 THEN 0 ELSE TermEnd(data, TermStart(data, n))
  IN [k \in 1..n |-> seg(k)]
       \o (IF last < Len(data) THEN <<SubSeq(data, last + 1, Len(data))>> ELSE <<>>)

\* ------------------------------------------------------------------------
\* C15: on a buffer without NUL bytes split_lines returns, in order, the
\* segments between terminators, where a LF, a CR not followed by LF, and a
\* CR LF pair are one terminator each; a last segment without terminator is
\* returned when it is not empty, and no line holds a CR or a LF.
\* ------------------------------------------------------------------------
C15_SplitLinesSegments ==
  pc = "split" =>
    /\ lines1 = Segments(file1.data)
    /\ \A n \in 1..Len(lines1) : \A i \in 1..Len(lines1[n]) :
         lines1[n][i] \notin {10, 13}

\* the buffer holds a CR LF pair after a line, a second terminator right
\* after the pair, and ends in a line without terminator
C15_Witness ==
  /\ pc = "split" /\ Len(file1.data) = 5
  /\ file1.data[1] = 97 /\ file1.data[2] = 13 /\ file1.data[3] = 10
  /\ file1.data[4] \in {10, 13} /\ file1.data[5] = 97
  /\ Len(lines1) = 3

\* data holds a NUL byte at an index (0-based) below BINARY_CHECK_SIZE
EarlyNul(data) ==
  \E i \in 1..Len(data) : data[i] = 0 /\ i - 1 < BINARY_CHECK_SIZE

\* ------------------------------------------------------------------------
\* C16: when the two files differ and one of them holds a NUL byte at an
\* index below BINARY_CHECK_SIZE, diff_file marks that file binary, runs
\* neither find_equiv_lines nor do_diff nor report_diff, and reports the
\* binary-differs message for it; a file whose NUL bytes are all at index
\* BINARY_CHECK_SIZE or above is not marked binary.
\* ------------------------------------------------------------------------
C16_BinaryFilesNotCompared ==
  /\ (pc # "open" /\ file1.data # file2.data
        /\ (EarlyNul(file1.data) \/ EarlyNul(file2.data))) =>
       /\ pc \in {"binary", "binary_reported"}
       /\ EarlyNul(file1.data) => file1.is_binary
       /\ EarlyNul(file2.data) => file2.is_binary
       /\ NoDiffFile
       /\ pc = "binary_reported" =>
            /\ EarlyNul(file1.data) => msgs[1] = MSG_BIN_FILE_DIFFERS
            /\ EarlyNul(file2.data) => msgs[2] = MSG_BIN_FILE_DIFFERS
  /\ ~EarlyNul(file1.data) => ~file1.is_binary
  /\ ~EarlyNul(file2.data) => ~file2.is_binary

\* the first file holds a NUL byte below BINARY_CHECK_SIZE, the second holds
\* one at BINARY_CHECK_SIZE only, and the message is reported
C16_Witness ==
  /\ pc = "binary_reported"
  /\ EarlyNul(file1.data) /\ ~EarlyNul(file2.data)
  /\ Len(file2.data) > BINARY_CHECK_SIZE /\ file2.data[BINARY_CHECK_SIZE + 1] = 0
  /\ msgs = <<MSG_BIN_FILE_DIFFERS, MSG_FILE_DIFFERS>>

C18_ShiftIdempotent ==
  pc = "shifted_twice" => shift_out[2] = shift_out[1]

\* ------------------------------------------------------------------------
\* C19: shift_boundaries leaves the number of changed entries as it was, for
\* every data, change and score function, and without score function.
\* ------------------------------------------------------------------------
C19_ShiftKeepsCount ==
  \A n \in 1..Len(shift_out) :
    /\ Len(shift_out[n]) = Len(shift_call.change)
    /\ CountTrue(shift_out[n]) = CountTrue(shift_call.change)

\* a run after one unchanged line was moved up and merged into the run that
\* starts at index 0
C19_Witness ==
  /\ pc = "shifted"
  /\ Len(shift_call.change) >= 3
  /\ shift_call.change[1] /\ ~shift_call.change[2] /\ shift_call.change[3]
  /\ shift_out[1][1] /\ shift_out[1][2] /\ ~shift_out[1][3]

\* ------------------------------------------------------------------------
\* C20: whatever the two slices do_diff is called with, empty ones included,
\* every cell of v that algorithm_sms reads or writes, in every algorithm_lcs
\* call down the recursion, lies inside the slice do_diff has made, and
\* within one algorithm_sms call no cell is addressed both from down_off and
\* from up_off.
\* ------------------------------------------------------------------------
C20_DiagonalVectorSafe ==
  /\ pc # "panic"
  /\ \A a \in v_use : 0 <= a.index /\ a.index < v_len(Len(data1), Len(data2))
  /\ \A a \in v_use : \A b \in v_use :
       (a.call = b.call /\ a.half # b.half) => a.index # b.index

\* do_diff is over, and an algorithm_sms call on sub-slices, two or more
\* algorithm_lcs calls deep, has addressed cells of both halves
C20_Witness ==
  /\ pc = "done"
  /\ \E a \in v_use : \E b \in v_use :
       /\ a.call = b.call /\ a.level >= 2
       /\ a.half = "down" /\ b.half = "up"

\* the two sides as compress_equiv_ids has left them
Compressed ==
  find_equiv_lines(lines1, lines2, hashf, Cfg, flag_cmp_ignore_blank_lines)

\* every position of before that is marked is marked in after
StillMarked(before, after) ==
  /\ Len(after) = Len(before)
  /\ \A i \in 1..Len(before) : before[i] => after[i]

RECURSIVE SumSeq(_)
SumSeq(s) == IF s = <<>> THEN 0 ELSE Head(s) + SumSeq(Tail(s))

\* zcount goes with zids and counts the lines zids_start..zids_end-1
CountsAgree(info) ==
  /\ Len(info.zcount) = Len(info.zids)
  /\ \A n \in 1..Len(info.zcount) : info.zcount[n] >= 1
  /\ SumSeq(info.zcount) = info.zids_end - info.zids_start
  /\ 0 <= info.zids_start /\ info.zids_end <= Len(info.ids)
  /\ info.zids_nil => (info.zids = <<>> /\ info.zids_start = 0 /\ info.zids_end = 0)

\* the entries in which after differs from before are true in after and lie
\* in zids_start..zids_end-1
WritesInside(info, before, after) ==
  \A i \in 1..Len(before) :
    after[i] # before[i] =>
      after[i] /\ info.zids_start < i /\ i <= info.zids_end

\* ------------------------------------------------------------------------
\* C22: after compress_equiv_ids, on each side zcount has an entry for each
\* entry of zids and the entries of zcount add up to zids_end - zids_start
\* (both are 0 when no zids are built); expand_change_list changes entries of
\* change only inside zids_start..zids_end-1 and only sets them to true.
\* ------------------------------------------------------------------------
C22_ZcountCoversRange ==
  /\ pc \in {"classified", "diffed", "expanded"} =>
       CountsAgree(info1) /\ CountsAgree(info2)
  /\ pc = "expanded" =>
       /\ Len(info1.change) = Len(lines1) /\ Len(info2.change) = Len(lines2)
       /\ WritesInside(info1, Compressed[1].change, info1.change)
       /\ WritesInside(info2, Compressed[2].change, info2.change)

\* side 1 has a run of lines compressed into one entry that do_diff has found
\* changed, and expand_change_list has marked lines of side 1
C22_Witness ==
  /\ pc = "expanded" /\ ndiff = 1
  /\ \E n \in 1..Len(info1.zcount) : info1.zcount[n] >= 2 /\ zchange1[n]
  /\ info1.change # Compressed[1].change

\* the position in ids (0-based) of the first line of entry n of zids
EntryStart(info, n) == info.zids_start + SumSeq(SubSeq(info.zcount, 1, n - 1))

\* the id of the first line of entry n of zids
EntryId(info, n) == info.ids[EntryStart(info, n) + 1]

\* entry n of zids of info stands for lines whose id the other side does not
\* have
EntryExcluded(info, other, n) == EntryId(info, n) \notin has_ids(other.ids)

\* ------------------------------------------------------------------------
\* C23: after compress_equiv_ids, an entry of zids of one side equals an
\* entry of zids of the other side only when both stand for one line each,
\* not excluded, of an id that both sides have; an entry that stands for an
\* excluded line or run equals no entry of the other side.
\* ------------------------------------------------------------------------
C23_ZidsMatchOnlyCommonLines ==
  pc = "classified" =>
    \A p \in 1..Len(info1.zids) : \A q \in 1..Len(info2.zids) :
      info1.zids[p] = info2.zids[q] =>
        /\ ~EntryExcluded(info1, info2, p) /\ ~EntryExcluded(info2, info1, q)
        /\ info1.zcount[p] = 1 /\ info2.zcount[q] = 1
        /\ EntryId(info1, p) = info1.zids[p] /\ EntryId(info2, q) = info2.zids[q]
        /\ info1.zids[p] \in has_ids(info1.ids) \cap has_ids(info2.ids)

\* both sides have a run of two excluded lines and a line that matches a line
\* of the other side
C23_Witness ==
  /\ pc = "classified"
  /\ \E p \in 1..Len(info1.zids) :
       EntryExcluded(info1, info2, p) /\ info1.zcount[p] = 2
  /\ \E q \in 1..Len(info2.zids) :
       EntryExcluded(info2, info1, q) /\ info2.zcount[q] = 2
  /\ \E p \in 1..Len(info1.zids) : \E q \in 1..Len(info2.zids) :
       info1.zids[p] = info2.zids[q]

\* line i (0-based) of info has an id the other side does not have
LineExcluded(info, other, i) == info.ids[i + 1] \notin has_ids(other.ids)

\* entry n of zids of info stands for one whole run of excluded lines: its
\* lines are excluded and the lines next to it in zids_start..zids_end-1 are
\* not
WholeRun(info, other, n) ==
  /\ \A i \in EntryStart(info, n)..(EntryStart(info, n) + info.zcount[n] - 1) :
       LineExcluded(info, other, i)
  /\ EntryStart(info, n) > info.zids_start =>
       ~LineExcluded(info, other, EntryStart(info, n) - 1)
  /\ EntryStart(info, n) + info.zcount[n] < info.zids_end =>
       ~LineExcluded(info, other, EntryStart(info, n) + info.zcount[n])

\* the entries of zids that stand for excluded lines, as <<side, n, value>>
ExcludedEntries ==
  {<<1, n, info1.zids[n]>> : n \in {m \in 1..Len(info1.zids) :
                                      EntryExcluded(info1, info2, m)}}
    \cup {<<2, n, info2.zids[n]>> : n \in {m \in 1..Len(info2.zids) :
                                            EntryExcluded(info2, info1, m)}}

\* ------------------------------------------------------------------------
\* C24: compress_equiv_ids turns every run of excluded lines between
\* zids_start and zids_end into one entry of zids, with the length of the run
\* in zcount and a value below 0 that no other run has, of either side; this
\* holds of runs of one line and of runs of the blank line id 0 as well.
\* A run of one line gets the negated id of the line: that is 0 for the
\* blank line under -B, and the same value for two runs of one line of the
\* same id, so the statement does not hold of compress_equiv_ids.
\* ------------------------------------------------------------------------
C24_ExcludedRunsGetFreshNegativeIds ==
  pc = "classified" =>
    /\ \A n \in 1..Len(info1.zids) :
         EntryExcluded(info1, info2, n) => WholeRun(info1, info2, n)
    /\ \A n \in 1..Len(info2.zids) :
         EntryExcluded(info2, info1, n) => WholeRun(info2, info1, n)
    /\ \A a \in ExcludedEntries : a[3] < 0
    /\ \A a \in ExcludedEntries : \A b \in ExcludedEntries :
         (a[1] # b[1] \/ a[2] # b[2]) => a[3] # b[3]

\* ------------------------------------------------------------------------
\* C25: shift_boundaries keeps the unchanged content: the data at the
\* positions that are not marked changed, in order, is the same after every
\* step of the scan and of do_shift_boundary as it was at the call, when the
\* scan goes on in the middle of a chunk merged into index 0 as well.
\* ------------------------------------------------------------------------
C25_ShiftKeepsUnchangedContent ==
  /\ Len(scan.change) = Len(shift_call.change)
  /\ Unmarked(shift_call.data, scan.change)
       = Unmarked(shift_call.data, shift_call.change)

\* after an up-merge into index 0 the scan goes on inside the merged chunk:
\* the position of the scan and the one before it are marked changed
C25_Witness ==
  /\ pc = "scan"
  /\ scan.case # <<>> /\ scan.case[Len(scan.case)] = "up_merge"
  /\ scan.change[1]
  /\ 0 < scan.start /\ scan.start < Len(scan.change)
  /\ scan.change[scan.start] /\ scan.change[scan.start + 1]

\* ------------------------------------------------------------------------
\* C26: shift_boundaries returns, for every data, change and score function:
\* the scan does not go on for ever moving lines up into a merge and down
\* again.
\* ------------------------------------------------------------------------
C26_ShiftBoundariesTerminates == <>(pc = "scanned")

\* an up-merge, then a down-merge, then an up-merge again, under way
C26_Witness ==
  /\ pc = "shift"
  /\ scan.case = <<"up_merge", "down_merge", "up_merge">>

\* the algorithm_lcs call c without the items that match at the start and at
\* the end of its slices
Trimmed(c) ==
  LcsCall(c.lo1 + lcs_head(Slice(data1, c.lo1, c.hi1), Slice(data2, c.lo2, c.hi2), 0),
          c.hi1 - lcs_tail(Slice(data1, c.lo1, c.hi1), Slice(data2, c.lo2, c.hi2),
                           lcs_head(Slice(data1, c.lo1, c.hi1),
                                    Slice(data2, c.lo2, c.hi2), 0), 0),
          c.lo2 + lcs_head(Slice(data1, c.lo1, c.hi1), Slice(data2, c.lo2, c.hi2), 0),
          c.hi2 - lcs_tail(Slice(data1, c.lo1, c.hi1), Slice(data2, c.lo2, c.hi2),
                           lcs_head(Slice(data1, c.lo1, c.hi1),
                                    Slice(data2, c.lo2, c.hi2), 0), 0),
          c.level)

\* the number of items of the two slices of the call c
ProblemSize(c) == (c.hi1 - c.lo1) + (c.hi2 - c.lo2)

\* lo and hi are the subproblems X[:x0], Y[:y0] and X[x1:], Y[y1:] of the
\* problem c with 0 <= x0 <= x1 <= |X| and 0 <= y0 <= y1 <= |Y|, and each is
\* smaller than c
SplitsSmaller(c, lo, hi) ==
  /\ lo.lo1 = c.lo1 /\ lo.lo2 = c.lo2 /\ hi.hi1 = c.hi1 /\ hi.hi2 = c.hi2
  /\ c.lo1 <= lo.hi1 /\ lo.hi1 <= hi.lo1 /\ hi.lo1 <= c.hi1
  /\ c.lo2 <= lo.hi2 /\ lo.hi2 <= hi.lo2 /\ hi.lo2 <= c.hi2
  /\ ProblemSize(lo) < ProblemSize(c) /\ ProblemSize(hi) < ProblemSize(c)

\* a step in which algorithm_lcs makes its two recursive calls: the problem
\* split is the trimmed one of the call taken, or the one algorithm_sms ran on
LcsSplitStep ==
  /\ pc \in {"lcs", "sms_down", "sms_up"} /\ pc' = "lcs"
     /\ Len(lcs_stack') > Len(lcs_stack)
     => SplitsSmaller(IF pc = "lcs" THEN Trimmed(Head(lcs_stack)) ELSE sms_call,
                      lcs_stack'[1], lcs_stack'[2])

\* ------------------------------------------------------------------------
\* C27: algorithm_lcs terminates: the point algorithm_sms or find_one_sms
\* returns splits the trimmed problem into X[:x0], Y[:y0] and X[x1:], Y[y1:]
\* with 0 <= x0 <= x1 <= |X| and 0 <= y0 <= y1 <= |Y|, each smaller than the
\* problem split, and algorithm_sms returns after finitely many values of d,
\* so do_diff comes to its end.
\* ------------------------------------------------------------------------
C27_AlgorithmLcsTerminates ==
  [][LcsSplitStep]_vars /\ <>(pc = "done")

\* an algorithm_lcs call three calls deep is about to be made: the problem
\* was split twice
C27_Witness ==
  /\ pc = "lcs"
  /\ Head(lcs_stack).level >= 3
  /\ ProblemSize(Head(lcs_stack)) >= 2

\* ------------------------------------------------------------------------
\* C28: the bitmaps diff_file hands to report_diff leave as many lines
\* unchanged on one side as on the other, so some case of the loop of
\* report_diff applies at every turn and its default case is never taken;
\* report_diff ends with every line of both sides consumed and with the ops
\* still buffered passed to diff_lines.
\* ------------------------------------------------------------------------
C28_ReportDiffConsumesAll ==
  /\ pc = "report" =>
       len1 - CountTrue(change1) = len2 - CountTrue(change2)
  /\ InLoop => CaseSame \/ CaseBoth \/ CaseOne \/ CaseTwo
  /\ pc = "done" =>
       /\ i1 = len1 /\ i2 = len2
       /\ Len(ops) > 0 =>
            /\ Len(hunks) > 0
            /\ Len(hunks[Len(hunks)]) >= Len(ops)
            /\ SubSeq(hunks[Len(hunks)], 1, Len(ops)) = ops

\* report_diff has returned after two hunks, on files that have changed and
\* unchanged lines on both sides
C28_Witness ==
  /\ pc = "done"
  /\ Len(hunks) >= 2 /\ Len(ops) > 0
  /\ CountTrue(change1) > 0 /\ CountTrue(change2) > 0
  /\ CountTrue(change1) < len1
  /\ len1 # len2

\* ------------------------------------------------------------------------
\* C29: the change bitmaps of do_diff do not depend on what v holds when an
\* algorithm_sms call starts: with every cell of v but the four the call
\* sets holding any value, do_diff ends with the bitmaps it gives on a v of
\* zeros, and it does not stop on an index out of range.
\* ------------------------------------------------------------------------
C29_ResultIndependentOfV ==
  /\ pc # "panic"
  /\ pc = "done" => <<zchange1, zchange2>> = do_diff(data1, data2)

\* a value that no run on a v of zeros puts in z has been read from a cell
\* the call has not set, in a call on sub-slices
C29_Witness ==
  /\ pc = "sms_up"
  /\ sms_call.z = MaxSmsLen + 2
  /\ sms_call.level >= 2

\* goroutine g is between two out_acquire_lock calls or between two jobs
\* without out_lock, and holds it from the header to the release
LockHeldWhereTaken(g) ==
  /\ workers[g].pc \in {"idle", "open", "message", "done"} => out_lock # g
  /\ workers[g].pc = "message_rows" => out_lock = g
  /\ workers[g].header_printed => out_lock = g /\ workers[g].pc = "report"
  /\ workers[g].pc = "report" /\ ~workers[g].header_printed => out_lock # g

\* out_lock is taken when it is free and released by the goroutine that
\* holds it, each in a step of that goroutine
LockStep ==
  /\ out_lock' # out_lock /\ out_lock' # 0 =>
       out_lock = 0 /\ workers'[out_lock'] # workers[out_lock']
  /\ out_lock' # out_lock /\ out_lock # 0 =>
       out_lock' = 0 /\ workers'[out_lock] # workers[out_lock]

====
